---- MODULE Spec2Model ----
(***************************************************************************)
(* Kiosk ordering backend of the "Pastelaria" application.                 *)
(*                                                                         *)
(* Two revisions of the Order Service live in the repository:              *)
(*   - src/server.js          file-backed: three JSON documents            *)
(*                            (users.json, orders.json, user_orders.json)  *)
(*   - src/backend/server.js  relational: tables users and orders (SQLite  *)
(*                            through knex)                                *)
(* Both are driven here by the same stream of HTTP requests, each request  *)
(* handled to completion by both revisions, so that every property can be  *)
(* read off either store.  Names prefixed File... model src/server.js,     *)
(* names prefixed Sql... model src/backend/server.js.                      *)
(* Requests are handled one at a time: a handler runs to its answer before *)
(* the next request is taken.  A storage write may fail (writeJson throws, *)
(* the database rejects a statement); what the handler had written before  *)
(* the failing write stays written.                                        *)
(***************************************************************************)
EXTENDS Integers, Sequences, FiniteSets, TLC

VARIABLES
    now,          \* the wall clock read by Date.now() / new Date(), in ms
    fUsers,       \* data/users.json        (array of users)
    fOrders,      \* data/orders.json       (array of active orders)
    fUserOrders,  \* data/user_orders.json  (array: the order history)
    sUsers,       \* table users  (rows in insertion order)
    sOrders,      \* table orders (rows in insertion order)
    resp,         \* the last request handled and the two answers to it
    fDone,        \* ids of active orders the file-backed DELETE answered 200 for
    sDone,        \* ids of active orders the relational DELETE answered 200 for
    fAccepted,    \* ids the file-backed POST /api/orders answered 201 with
    sAccepted,    \* ids the relational POST /api/orders answered 201 with
    fReg201,      \* normalized CPFs the file-backed POST /api/users answered 201
    sReg201,      \* normalized CPFs the relational POST /api/users answered 201
    nFaults,      \* storage writes that have failed so far
    fDamaged,     \* the JSON documents that are missing or do not parse
    genAI,        \* backend: the completion-service client, or none (no key)
    ai,           \* kiosk page: the completion-service client, or none
    chat,         \* kiosk page: the conversation handle, or none
    chatsCreated, \* conversation handles created so far
    aiCall,       \* the last call of an AI route or helper and its outcome
    inflight,     \* the handlers in flight: position and local variables
    started,      \* handlers started so far
    ui            \* kiosk page: location, React state, requests in flight

vars == <<now, fUsers, fOrders, fUserOrders, sUsers, sOrders, resp,
          fDone, sDone, fAccepted, sAccepted, fReg201, sReg201, nFaults,
          fDamaged, genAI, ai, chat, chatsCreated, aiCall,
          inflight, started, ui>>

kioskVars == <<now, fUsers, fOrders, fUserOrders, sUsers, sOrders, resp,
               fDone, sDone, fAccepted, sAccepted, fReg201, sReg201, nFaults,
               fDamaged>>
aiVars == <<genAI, ai, chat, chatsCreated, aiCall>>
asyncVars == <<inflight, started, ui>>

fileStore == <<fUsers, fOrders, fUserOrders>>
sqlStore == <<sUsers, sOrders>>

----------------------------------------------------------------------------
(* Bounds of the model *)

\* first value of the clock; the clock then crosses a decimal digit boundary
StartTime == 9
\* number of clock ticks explored
MaxTime == 1
\* orders held by any one collection
MaxOrders == 2
\* users held by either store
MaxUsers == 2
\* storage writes that fail in one run
MaxFaults == 1
\* conversation handles created in one run
MaxChats == 2
\* handlers the server has in flight at one time
MaxInflight == 2
\* handlers started in one run of the interleaved server
MaxStarted == 3
\* times the menu page is mounted in one run
MaxMounts == 2
\* checkout clicks in one run
MaxClicks == 2
\* runs of the cart-suggestion effect in one run
MaxRuns == 3
\* products in the cart
MaxCart == 2

Times == StartTime .. (StartTime + MaxTime)

----------------------------------------------------------------------------
(* Values *)

\* An identifier: a literal string the client chose (t = 0), or a template
\* string `<k>${Date.now()}` built by the server.
Id(k, t) == [k |-> k, t |-> t]
NoId == Id("", 0)

\* `order_${Date.now()}`
OrderId(t) == Id("order_", t)

\* `user_${Date.now()}`
UserId(t) == Id("user_", t)

\* JavaScript truthiness of a string-valued field: missing or "" is falsy
Truthy(id) == id # NoId

\* Date.prototype.toISOString(): a fixed-width, zero-padded rendering of the
\* instant; two renderings compare as strings, character by character.
ToISOString(t) == <<t \div 10, t % 10>>

\* absent / NULL timestamp
NoTime == <<>>

\* string comparison a <= b of two renderings (SQL ORDER BY on a string column)
RECURSIVE StrLeq(_, _)
StrLeq(a, b) ==
    IF a = <<>> THEN TRUE
    ELSE IF b = <<>> THEN FALSE
    ELSE IF Head(a) < Head(b) THEN TRUE
    ELSE IF Head(a) > Head(b) THEN FALSE
    ELSE StrLeq(Tail(a), Tail(b))

Digits == {"0", "1", "2", "3", "4", "5", "6", "7", "8", "9"}

\* String(cpf).replace(/\D/g, '')
StripNonDigits(s) == SelectSeq(s, LAMBDA c : c \in Digits)

\* JSON.stringify of an array into a text column, and JSON.parse of it
JsonStringify(v) == [json |-> v]
JsonParse(s) == s.json

\* a numeric value, or a value whose typeof is not 'number' (absent, string)
Num(v) == [num |-> TRUE, v |-> v]
NotNum == [num |-> FALSE, v |-> 0]

SeqMap(f(_), s) == [i \in 1 .. Len(s) |-> f(s[i])]

----------------------------------------------------------------------------
(* Request bodies *)

CpfPlain == <<"1", "2", "3", "4", "5", "6", "7", "8", "9", "0", "1">>
CpfPunct == <<"1", "2", "3", ".", "4", "5", "6", ".", "7", "8", "9", "-", "0", "1">>
CpfOther == <<"9", "8", "7", "6", "5", "4", "3", "2", "1", "0", "0">>
CpfShort == <<"1", "2", "3">>
CpfMissing == <<>>

RawCpfs == {CpfPlain, CpfPunct, CpfOther, CpfShort, CpfMissing}

\* bodies of POST /api/users
UserPayloads ==
    [id : {NoId, Id("u1", 0)}, name : {""}, email : {""},
     cpf : RawCpfs, pontos : {0, 50}]

Pastel == [productId |-> "p1", name |-> "Pastel de Carne", price |-> 12,
           quantity |-> 2, extra |-> "x"]
Coca == [productId |-> "p2", name |-> "Coca-Cola", price |-> 6,
         quantity |-> 1, extra |-> "x"]
ZeroQty == [productId |-> "p1", name |-> "Pastel de Carne", price |-> 5,
            quantity |-> 0, extra |-> "x"]
NegPrice == [productId |-> "p2", name |-> "Coca-Cola", price |-> -6,
             quantity |-> 1, extra |-> "x"]

\* an element of payload.items that is null
Null == [null |-> TRUE]
IsNull(it) == DOMAIN it = {"null"}

\* payload.items: an array (arr) of elements, or something that is no array
Arr(els) == [arr |-> TRUE, els |-> els]
NotArray == [arr |-> FALSE, els |-> <<>>]

\* the customers of the kiosk while orders are taken
KioskUsers ==
    { [id |-> Id("u1", 0), name |-> "", email |-> "", cpf |-> CpfPlain,
       pontos |-> 0] }

OrderBody(userId, items, total) ==
    [userId |-> userId, userName |-> "", items |-> items, total |-> total]

\* bodies of POST /api/orders
OrderPayloads ==
    { OrderBody(Id("u1", 0), Arr(<<Pastel, Coca>>), NotNum),
      OrderBody(Id("u1", 0), Arr(<<ZeroQty, NegPrice>>), Num(7)),
      OrderBody(Id("u2", 0), Arr(<<>>), NotNum),
      OrderBody(NoId, Arr(<<Pastel, Coca>>), NotNum),
      OrderBody(Id("u1", 0), NotArray, NotNum) }

\* bodies of POST /api/orders, those with malformed elements included
AnyOrderPayloads ==
    OrderPayloads \cup
    { OrderBody(Id("u1", 0), Arr(<<Pastel, Null>>), NotNum),
      OrderBody(Id("u1", 0), Arr(<<Null>>), Num(12)) }

\* :id of DELETE /api/orders/:id
OrderIds == {OrderId(t) : t \in Times} \cup {Id("nope", 0)}

\* which storage write of a handler fails (0: none)
Faults == 0 .. 3

----------------------------------------------------------------------------
(* Users: POST /api/users *)

\* what a handler leaves behind: the collections as stored when it returns,
\* and its answer
FileResult(status, body, users, orders, userOrders) ==
    [status |-> status, body |-> body, users |-> users, orders |-> orders,
     userOrders |-> userOrders, written |-> {}]

\* the documents writeJson has overwritten before the handler returned
Written(files, result) == [result EXCEPT !.written = files]

\* the three documents
Files == {"users", "orders", "userOrders"}

\* readJson with its try/catch left out of account: the text as last stored
ReadJsonAsStored(file, stored) == stored

\* readJson: the parsed document, [] when readFile or JSON.parse throws
ReadJson(file, stored) == IF file \in fDamaged THEN <<>> ELSE stored

ReadUsers == ReadJson("users", fUsers)
ReadOrders == ReadJson("orders", fOrders)
ReadUserOrders == ReadJson("userOrders", fUserOrders)

SqlResult(status, body, users, orders) ==
    [status |-> status, body |-> body, users |-> users, orders |-> orders]

\* payload.name || 'Sem Nome'
NameOrDefault(name) == IF name = "" THEN "Sem Nome" ELSE name

\* payload.id || `user_${Date.now()}`
IdOrDefault(id) == IF Truthy(id) THEN id ELSE UserId(now)

\* users.find(u => String(u.cpf).replace(/\D/g, '') === cpf)
FileCpfExists(users, cpf) ==
    \E i \in 1 .. Len(users) : StripNonDigits(users[i].cpf) = cpf

FilePostUsers(payload, fault) ==
    IF payload.cpf = CpfMissing
    THEN FileResult(400, <<>>, fUsers, fOrders, fUserOrders)
    ELSE LET cpf == StripNonDigits(payload.cpf)
             newUser == [id |-> IdOrDefault(payload.id),
                         name |-> NameOrDefault(payload.name),
                         email |-> payload.email,
                         cpf |-> cpf,
                         historico |-> <<>>,
                         pontos |-> payload.pontos]
             users == ReadUsers
         IN IF FileCpfExists(users, cpf)
            THEN FileResult(409, <<>>, fUsers, fOrders, fUserOrders)
            ELSE IF fault = 1
            THEN FileResult(500, <<>>, fUsers, fOrders, fUserOrders)
            ELSE Written({"users"},
                         FileResult(201, <<newUser>>, Append(users, newUser),
                                    fOrders, fUserOrders))

\* db('users').where({ cpf: cpfLimpo }).first()
SqlCpfExists(rows, cpf) == \E i \in 1 .. Len(rows) : rows[i].cpf = cpf

\* table users without the unique constraint on cpf
SqlUserInsertOkAnyCpf(rows, row) ==
    \A i \in 1 .. Len(rows) :
        /\ rows[i].id # row.id
        /\ rows[i].email # row.email

\* table users: id is the primary key, email and cpf are unique
SqlUserInsertOk(rows, row) ==
    \A i \in 1 .. Len(rows) :
        /\ rows[i].id # row.id
        /\ rows[i].email # row.email
        /\ rows[i].cpf # row.cpf

SqlPostUsers(payload, fault) ==
    IF payload.cpf = CpfMissing
    THEN SqlResult(400, <<>>, sUsers, sOrders)
    ELSE LET cpfLimpo == StripNonDigits(payload.cpf)
             newUser == [id |-> IdOrDefault(payload.id),
                         name |-> NameOrDefault(payload.name),
                         email |-> payload.email,
                         cpf |-> cpfLimpo,
                         historico |-> JsonStringify(<<>>),
                         pontos |-> 0]
         IN IF SqlCpfExists(sUsers, cpfLimpo)
            THEN SqlResult(409, <<>>, sUsers, sOrders)
            ELSE IF fault = 1 \/ ~SqlUserInsertOk(sUsers, newUser)
            THEN SqlResult(500, <<>>, sUsers, sOrders)
            ELSE SqlResult(201, <<[newUser EXCEPT !.historico = <<>>]>>,
                           Append(sUsers, newUser), sOrders)

----------------------------------------------------------------------------
(* Orders: POST /api/orders *)

\* payload.items.reduce((acc, it) => acc + (it.price * it.quantity), 0)
RECURSIVE ReduceTotal(_, _)
ReduceTotal(acc, items) ==
    IF items = <<>> THEN acc
    ELSE ReduceTotal(acc + (Head(items).price * Head(items).quantity),
                     Tail(items))

\* the total always recomputed from the lines, whatever the client sent
OrderTotalRecomputed(payload) == ReduceTotal(0, payload.items.els)

\* typeof payload.total === 'number' ? payload.total : payload.items.reduce(...)
OrderTotal(payload) ==
    IF payload.total.num THEN payload.total.v
    ELSE ReduceTotal(0, payload.items.els)

\* it => ({ productId, name, quantity, price }): the snapshot kept of a line
LineItem(it) ==
    [productId |-> it.productId, name |-> it.name, quantity |-> it.quantity,
     price |-> it.price]

\* !payload || !payload.userId || !Array.isArray(payload.items)
InvalidOrderBody(payload) == ~Truthy(payload.userId) \/ ~payload.items.arr

\* it.price, it.productId, ... of an element that is null: a TypeError
ThrowsTypeError(items) == \E i \in 1 .. Len(items) : IsNull(items[i])

\* users.findIndex(u => u.id === order.userId), 0 when there is none
FindUserIndex(users, userId) ==
    IF \E i \in 1 .. Len(users) : users[i].id = userId
    THEN CHOOSE i \in 1 .. Len(users) :
             /\ users[i].id = userId
             /\ \A j \in 1 .. (i - 1) : users[j].id # userId
    ELSE 0

\* orders.unshift(order): the new order put first
UnshiftOrder(orders, order) == <<order>> \o orders

\* orders.push(order)
PushOrder(orders, order) == Append(orders, order)

\* the handler of src/server.js; Date.now() and new Date() are two
\* consecutive statements and read the same clock value.  The total and
\* the snapshot of the lines are computed inside the try block: a TypeError
\* there is caught and answered 500 before anything is written.
FilePostOrders(payload, fault) ==
    IF InvalidOrderBody(payload)
    THEN FileResult(400, <<>>, fUsers, fOrders, fUserOrders)
    ELSE IF ThrowsTypeError(payload.items.els)
    THEN FileResult(500, <<>>, fUsers, fOrders, fUserOrders)
    ELSE LET id == OrderId(now)
             timestamp == ToISOString(now)
             order == [id |-> id,
                       userId |-> payload.userId,
                       userName |-> payload.userName,
                       items |-> SeqMap(LineItem, payload.items.els),
                       total |-> OrderTotal(payload),
                       timestamp |-> timestamp,
                       status |-> "active",
                       completedAt |-> NoTime]
             orders == PushOrder(ReadOrders, order)
             userOrders == Append(ReadUserOrders, order)
             userIdx == FindUserIndex(ReadUsers, order.userId)
             users == IF userIdx > 0
                      THEN [ReadUsers EXCEPT ![userIdx].historico =
                                                  Append(@, order)]
                      ELSE ReadUsers
         IN CASE fault = 1 -> FileResult(500, <<>>, fUsers, fOrders, fUserOrders)
              [] fault = 2 ->
                     Written({"orders"},
                             FileResult(500, <<>>, fUsers, orders, fUserOrders))
              [] fault = 3 ->
                     Written({"orders", "userOrders"},
                             FileResult(500, <<>>, fUsers, orders, userOrders))
              [] OTHER ->
                     Written(Files,
                             FileResult(201, <<order>>, users, orders, userOrders))

\* the lines stored as the snapshot the other revision keeps of them
SqlItemsSnapshot(items) == JsonStringify(SeqMap(LineItem, items))

\* items: JSON.stringify(payload.items)
SqlItemsColumn(items) == JsonStringify(items)

\* table orders: id is the primary key
SqlOrderInsertOk(rows, row) == \A i \in 1 .. Len(rows) : rows[i].id # row.id

\* the answer of a handler whose error escaped it: the handler wrote none
\* (the rejected promise is left to the framework and the runtime)
NoAnswer == 0

\* the handler of src/backend/server.js; the insert and the update of the
\* user's historico run in one transaction, which a failure rolls back.
\* The total is computed before the try block: a TypeError of the reduce
\* callback escapes the handler.
SqlPostOrders(payload, fault) ==
    IF InvalidOrderBody(payload)
    THEN SqlResult(400, <<>>, sUsers, sOrders)
    ELSE IF ~payload.total.num /\ ThrowsTypeError(payload.items.els)
    THEN SqlResult(NoAnswer, <<>>, sUsers, sOrders)
    ELSE LET id == OrderId(now)
             total == OrderTotal(payload)
             newOrder == [id |-> id,
                          userId |-> payload.userId,
                          userName |-> payload.userName,
                          items |-> SqlItemsColumn(payload.items.els),
                          total |-> total,
                          timestamp |-> ToISOString(now),
                          status |-> "active",
                          completedAt |-> NoTime]
             answer == [newOrder EXCEPT !.items = payload.items.els]
             userIdx == FindUserIndex(sUsers, payload.userId)
             users == IF userIdx > 0
                      THEN [sUsers EXCEPT ![userIdx].historico =
                               JsonStringify(Append(JsonParse(@), answer))]
                      ELSE sUsers
         IN IF fault = 1 \/ ~SqlOrderInsertOk(sOrders, newOrder)
            THEN SqlResult(500, <<>>, sUsers, sOrders)
            ELSE IF userIdx > 0 /\ fault = 2
            THEN SqlResult(500, <<>>, sUsers, sOrders)
            ELSE SqlResult(201, <<answer>>, users, Append(sOrders, newOrder))

----------------------------------------------------------------------------
(* Orders: DELETE /api/orders/:id *)

\* userOrders.forEach(o => { if (o.id === id) { status, completedAt } })
MarkCompleted(orders, id, at) ==
    [i \in 1 .. Len(orders) |->
        IF orders[i].id = id
        THEN [orders[i] EXCEPT !.status = "completed", !.completedAt = at]
        ELSE orders[i]]

\* orders.filter(o => o.id !== id)
RemoveOrder(orders, id) == SelectSeq(orders, LAMBDA o : o.id # id)

HasOrder(orders, id) == \E i \in 1 .. Len(orders) : orders[i].id = id

\* the users with the embedded copies of the order marked as well
HistoricoMarked(users, id, at) ==
    [i \in 1 .. Len(users) |->
        [users[i] EXCEPT !.historico = MarkCompleted(@, id, at)]]

\* the handler reads and writes orders.json and userOrders.json only: the
\* users, and the copies of the order in their historico, stay as stored
HistoricoKept(users, id, at) == users

\* the handler without its `if (!existing) return 404` line
FileDeleteOrderUnchecked(id, fault) ==
    LET remaining == RemoveOrder(ReadOrders, id)
        userOrders == MarkCompleted(ReadUserOrders, id, ToISOString(now))
    IN CASE fault = 1 -> FileResult(500, <<>>, fUsers, fOrders, fUserOrders)
         [] fault = 2 ->
                Written({"orders"},
                        FileResult(500, <<>>, fUsers, remaining, fUserOrders))
         [] OTHER ->
                Written({"orders", "userOrders"},
                        FileResult(200, <<>>, fUsers, remaining, userOrders))

FileDeleteOrder(id, fault) ==
    IF ~HasOrder(ReadOrders, id)
    THEN FileResult(404, <<>>, fUsers, fOrders, fUserOrders)
    ELSE LET remaining == RemoveOrder(ReadOrders, id)
             userOrders == MarkCompleted(ReadUserOrders, id, ToISOString(now))
         IN CASE fault = 1 -> FileResult(500, <<>>, fUsers, fOrders, fUserOrders)
              [] fault = 2 ->
                     Written({"orders"},
                             FileResult(500, <<>>, fUsers, remaining, fUserOrders))
              [] OTHER ->
                     Written({"orders", "userOrders"},
                             FileResult(200, <<>>,
                                        HistoricoKept(fUsers, id, ToISOString(now)),
                                        remaining, userOrders))

\* db('orders').where({ id }).update({ status, completedAt }); a statement
\* that matches no row writes nothing and reports 0 rows updated
SqlDeleteOrder(id, fault) ==
    LET completedAt == ToISOString(now)
    IN IF ~HasOrder(sOrders, id)
       THEN SqlResult(404, <<>>, sUsers, sOrders)
       ELSE IF fault = 1
       THEN SqlResult(500, <<>>, sUsers, sOrders)
       ELSE SqlResult(200, <<>>, sUsers, MarkCompleted(sOrders, id, completedAt))

----------------------------------------------------------------------------
(* Queries: GET /api/orders and GET /api/user-orders *)

\* ORDER BY timestamp: insertion of a row into rows already ordered
RECURSIVE InsertByTimestamp(_, _, _)
InsertByTimestamp(row, rows, asc) ==
    IF rows = <<>> THEN <<row>>
    ELSE LET before == IF asc THEN StrLeq(row.timestamp, Head(rows).timestamp)
                              ELSE StrLeq(Head(rows).timestamp, row.timestamp)
         IN IF before /\ row.timestamp # Head(rows).timestamp
            THEN <<row>> \o rows
            ELSE <<Head(rows)>> \o InsertByTimestamp(row, Tail(rows), asc)

RECURSIVE OrderByTimestamp(_, _)
OrderByTimestamp(rows, asc) ==
    IF rows = <<>> THEN <<>>
    ELSE InsertByTimestamp(rows[Len(rows)],
                           OrderByTimestamp(SubSeq(rows, 1, Len(rows) - 1), asc),
                           asc)

\* o => ({ ...o, items: JSON.parse(o.items), total: parseFloat(o.total) })
ParseOrderRow(o) == [o EXCEPT !.items = JsonParse(o.items)]

\* listActiveOrders, file-backed: the document as stored
FileGetOrders == ReadOrders

\* listActiveOrders, relational
SqlGetOrders ==
    SeqMap(ParseOrderRow,
           OrderByTimestamp(SelectSeq(sOrders, LAMBDA o : o.status = "active"),
                            TRUE))

\* listHistory(userId?), file-backed; NoId stands for no ?userId=
FileGetUserOrders(userId) ==
    IF Truthy(userId)
    THEN SelectSeq(ReadUserOrders, LAMBDA o : o.userId = userId)
    ELSE ReadUserOrders

\* listHistory(userId?), relational
SqlGetUserOrders(userId) ==
    SeqMap(ParseOrderRow,
           OrderByTimestamp(IF Truthy(userId)
                            THEN SelectSeq(sOrders, LAMBDA o : o.userId = userId)
                            ELSE sOrders,
                            FALSE))

----------------------------------------------------------------------------
(* The requests *)


\* a request and the answers of the two revisions to it
Response(op, cpf, id, f, s) ==
    [op |-> op, cpf |-> cpf, id |-> id,
     fStatus |-> f.status, fBody |-> f.body,
     sStatus |-> s.status, sBody |-> s.body]

\* no conversation handle
NoChat == 0

\* no AI call made yet
NoCall ==
    [fn |-> "none", history |-> <<>>, cart |-> <<>>, menu |-> <<>>,
     upstream |-> [ok |-> FALSE, text |-> "", candidate |-> ""],
     net |-> "up", variant |-> "", status |-> 0, result |-> "",
     sentOn |-> NoChat]

\* the handlers the server can have in flight
Slots == 1 .. MaxInflight

\* no handler in the slot
Idle ==
    [op |-> "idle", pc |-> "idle", arg |-> Null, orders |-> <<>>,
     userOrders |-> <<>>, users |-> <<>>, made |-> Null, status |-> 0,
     lastOrders |-> FALSE, lastUserOrders |-> FALSE]

\* the kiosk page as first rendered: nobody logged in, at the screensaver
InitialUi ==
    [currentUser |-> Null,      \* AuthProvider: useState<User | null>(null)
     location |-> "/",          \* HashRouter
     rendered |-> "ScreensaverPage",
     event |-> <<"start", "/">>,
     cartItems |-> <<>>,        \* CartProvider
     instance |-> 0,            \* the mounted MenuPage: 0 when none is
     mounts |-> 0,
     isPlacingOrder |-> FALSE,  \* MenuPage: useState(false)
     cartSuggestion |-> "",     \* MenuPage: useState("")
     suggestionRun |-> 0,       \* the effect run that set cartSuggestion
     runs |-> 0,                \* runs of the cart-suggestion effect
     clicks |-> 0,
     checkouts |-> {},          \* POST /api/orders requests not yet answered
     fetches |-> {}]            \* getDynamicCartSuggestion calls not yet answered

InitStores ==
    /\ inflight = [slot \in Slots |-> Idle]
    /\ started = 0
    /\ ui = InitialUi
    /\ now = StartTime
    /\ fUsers = <<>>
    /\ fOrders = <<>>
    /\ fUserOrders = <<>>
    /\ sUsers = <<>>
    /\ sOrders = <<>>
    /\ resp = [op |-> "none", cpf |-> CpfMissing, id |-> NoId, fStatus |-> 0, fBody |-> <<>>,
               sStatus |-> 0, sBody |-> <<>>]
    /\ fDone = {}
    /\ sDone = {}
    /\ fAccepted = {}
    /\ sAccepted = {}
    /\ fReg201 = {}
    /\ sReg201 = {}
    /\ nFaults = 0
    /\ fDamaged = {}

\* the kiosk started with no completion-service key configured
Init ==
    /\ InitStores
    /\ genAI = FALSE
    /\ ai = FALSE
    /\ chat = NoChat
    /\ chatsCreated = 0
    /\ aiCall = NoCall

\* the clock advances between requests
Tick ==
    /\ now < StartTime + MaxTime
    /\ now' = now + 1
    /\ UNCHANGED <<fUsers, fOrders, fUserOrders, sUsers, sOrders, resp,
                   fDone, sDone, fAccepted, sAccepted, fReg201, sReg201,
                   nFaults, fDamaged>>
    /\ UNCHANGED <<aiVars, asyncVars>>

\* the digits of a CPF as written, in order: its normalized form
RECURSIVE DigitsOf(_)
DigitsOf(s) ==
    IF s = <<>> THEN <<>>
    ELSE IF Head(s) \in Digits THEN <<Head(s)>> \o DigitsOf(Tail(s))
    ELSE DigitsOf(Tail(s))

\* a write fails only while the run may still see a failure
Inject(fault) ==
    /\ fault # 0 => nFaults < MaxFaults
    /\ nFaults' = IF fault # 0 THEN nFaults + 1 ELSE nFaults

\* POST /api/users
RegisterUser(payload, fault) ==
    LET f == FilePostUsers(payload, fault)
        s == SqlPostUsers(payload, fault)
        cpf == DigitsOf(payload.cpf)
    IN /\ Inject(fault)
       /\ Len(f.users) <= MaxUsers
       /\ Len(s.users) <= MaxUsers
       /\ fUsers' = f.users
       /\ sUsers' = s.users
       /\ fDamaged' = fDamaged \ f.written
       /\ resp' = Response("register", payload.cpf, NoId, f, s)
       /\ fReg201' = IF f.status = 201 THEN fReg201 \cup {cpf} ELSE fReg201
       /\ sReg201' = IF s.status = 201 THEN sReg201 \cup {cpf} ELSE sReg201
       /\ UNCHANGED <<now, fOrders, fUserOrders, sOrders, fDone, sDone,
                      fAccepted, sAccepted>>
       /\ UNCHANGED <<aiVars, asyncVars>>

\* POST /api/orders
SubmitOrder(payload, fault) ==
    LET f == FilePostOrders(payload, fault)
        s == SqlPostOrders(payload, fault)
    IN /\ Inject(fault)
       /\ Len(f.orders) <= MaxOrders
       /\ Len(f.userOrders) <= MaxOrders
       /\ Len(s.orders) <= MaxOrders
       /\ fUsers' = f.users
       /\ fOrders' = f.orders
       /\ fUserOrders' = f.userOrders
       /\ sUsers' = s.users
       /\ sOrders' = s.orders
       /\ fDamaged' = fDamaged \ f.written
       /\ resp' = Response("submit", CpfMissing, NoId, f, s)
       /\ fAccepted' = IF f.status = 201 THEN fAccepted \cup {f.body[1].id}
                       ELSE fAccepted
       /\ sAccepted' = IF s.status = 201 THEN sAccepted \cup {s.body[1].id}
                       ELSE sAccepted
       /\ UNCHANGED <<now, fDone, sDone, fReg201, sReg201>>
       /\ UNCHANGED <<aiVars, asyncVars>>

\* DELETE /api/orders/:id
CompleteOrder(id, fault) ==
    LET f == FileDeleteOrder(id, fault)
        s == SqlDeleteOrder(id, fault)
    IN /\ Inject(fault)
       /\ fUsers' = f.users
       /\ fOrders' = f.orders
       /\ fUserOrders' = f.userOrders
       /\ sUsers' = s.users
       /\ sOrders' = s.orders
       /\ fDamaged' = fDamaged \ f.written
       /\ resp' = Response("complete", CpfMissing, id, f, s)
       /\ fDone' = IF f.status = 200 /\ HasOrder(FileGetOrders, id)
                   THEN fDone \cup {id} ELSE fDone
       /\ sDone' = IF s.status = 200 /\ HasOrder(SqlGetOrders, id)
                   THEN sDone \cup {id} ELSE sDone
       /\ UNCHANGED <<now, fAccepted, sAccepted, fReg201, sReg201>>
       /\ UNCHANGED <<aiVars, asyncVars>>

\* a document is deleted, or overwritten with text that is no JSON, behind
\* the server's back
DamageFile(file) ==
    /\ nFaults < MaxFaults
    /\ nFaults' = nFaults + 1
    /\ fDamaged' = fDamaged \cup {file}
    /\ UNCHANGED <<now, fUsers, fOrders, fUserOrders, sUsers, sOrders, resp,
                   fDone, sDone, fAccepted, sAccepted, fReg201, sReg201>>
    /\ UNCHANGED <<aiVars, asyncVars>>

\* the kiosk taking and completing orders
Next ==
    \/ Tick
    \/ \E payload \in KioskUsers, fault \in 0 .. 1 : RegisterUser(payload, fault)
    \/ \E payload \in OrderPayloads, fault \in Faults : SubmitOrder(payload, fault)
    \/ \E id \in OrderIds, fault \in 0 .. 2 : CompleteOrder(id, fault)

Spec == Init /\ [][Next]_vars

\* the registration desk: any body of POST /api/users
NextUsers ==
    \/ Tick
    \/ \E payload \in UserPayloads, fault \in 0 .. 1 : RegisterUser(payload, fault)

SpecUsers == Init /\ [][NextUsers]_vars

\* the order desk: any body of POST /api/orders
NextBodies ==
    \/ Tick
    \/ \E payload \in AnyOrderPayloads, fault \in Faults :
           SubmitOrder(payload, fault)

SpecBodies == Init /\ [][NextBodies]_vars

\* the kiosk with its data directory tampered with
NextDisk ==
    \/ Tick
    \/ \E payload \in KioskUsers : RegisterUser(payload, 0)
    \/ \E payload \in OrderPayloads : SubmitOrder(payload, 0)
    \/ \E id \in OrderIds : CompleteOrder(id, 0)
    \/ \E file \in Files : DamageFile(file)

SpecDisk == Init /\ [][NextDisk]_vars

----------------------------------------------------------------------------
(* The completion service: the backend routes /api/ai/... *)

\* what a call of the completion service comes back with: a response whose
\* text is direct, or under candidates[0], or empty; or an error
Upstreams ==
    { [ok |-> TRUE, text |-> "Que tal um caldo de cana?", candidate |-> ""],
      [ok |-> TRUE, text |-> "", candidate |-> "Prove o pastel de queijo!"],
      [ok |-> TRUE, text |-> "", candidate |-> ""],
      [ok |-> FALSE, text |-> "", candidate |-> ""] }

\* req.body.prompt / req.body.message: missing, or a text
Prompts == {"", "Sugira um pastel"}

AiAnswer(status, text) == [status |-> status, text |-> text]

\* POST /api/ai/suggestion
PostAiSuggestion(prompt, upstream) ==
    IF ~genAI THEN AiAnswer(503, "")
    ELSE IF prompt = "" THEN AiAnswer(400, "")
    ELSE IF upstream.ok THEN AiAnswer(200, upstream.text)
    ELSE AiAnswer(500, "")

\* POST /api/ai/chat
PostAiChat(message, upstream) ==
    IF ~genAI THEN AiAnswer(503, "")
    ELSE IF message = "" THEN AiAnswer(400, "")
    ELSE IF upstream.ok THEN AiAnswer(200, upstream.text)
    ELSE AiAnswer(500, "")

\* the record kept of a call: its arguments, what the completion service and
\* the network did during it, and its outcome
Call(fn, history, cart, menu, upstream, net, variant, status, result, sentOn) ==
    [fn |-> fn, history |-> history, cart |-> cart, menu |-> menu,
     upstream |-> upstream, net |-> net, variant |-> variant,
     status |-> status, result |-> result, sentOn |-> sentOn]

AiSuggestion(prompt, upstream) ==
    LET a == PostAiSuggestion(prompt, upstream)
    IN /\ aiCall' = Call("POST /api/ai/suggestion", <<>>, <<>>, <<>>, upstream,
                         "up", prompt,
                         a.status, a.text, NoChat)
       /\ UNCHANGED <<genAI, ai, chat, chatsCreated>>
       /\ UNCHANGED <<kioskVars, asyncVars>>

AiChat(message, upstream) ==
    LET a == PostAiChat(message, upstream)
    IN /\ aiCall' = Call("POST /api/ai/chat", <<>>, <<>>, <<>>, upstream, "up",
                         message,
                         a.status, a.text, NoChat)
       /\ UNCHANGED <<genAI, ai, chat, chatsCreated>>
       /\ UNCHANGED <<kioskVars, asyncVars>>

----------------------------------------------------------------------------
(* The completion service: the helpers of the kiosk page calling it *)
(* directly (src/services/geminiService.ts)                         *)

\* the menu
PastelCarne ==
    [id |-> "p1", name |-> "Pastel de Carne", price |-> 12,
     category |-> "Pastel", popular |-> TRUE]
CocaCola ==
    [id |-> "p2", name |-> "Coca-Cola", price |-> 6,
     category |-> "Bebida", popular |-> FALSE]
Pudim ==
    [id |-> "p3", name |-> "Pudim", price |-> 8,
     category |-> "Doce", popular |-> FALSE]

\* a product put into the cart
CartItem(p, quantity) ==
    [id |-> p.id, name |-> p.name, price |-> p.price, category |-> p.category,
     popular |-> p.popular, quantity |-> quantity]

FullMenu == <<PastelCarne, CocaCola, Pudim>>

Menus == { FullMenu, <<PastelCarne, Pudim>>, <<PastelCarne>> }

Carts ==
    { <<>>,
      <<CartItem(PastelCarne, 1)>>,
      <<CartItem(PastelCarne, 2), CartItem(CocaCola, 1)>>,
      <<CartItem(CocaCola, 1), CartItem(Pudim, 1)>>,
      <<CartItem(PastelCarne, 1), CartItem(CocaCola, 1), CartItem(Pudim, 1)>> }

\* currentUser.historico
Histories ==
    { <<>>, <<[id |-> OrderId(1), items |-> <<CartItem(PastelCarne, 1)>>]>> }

\* response?.text || response?.candidates?.[0]?.content?.parts?.[0]?.text || ""
ResponseText(upstream) ==
    IF upstream.text # "" THEN upstream.text ELSE upstream.candidate

\* text with nothing put in its place when it is empty
OrNothing(text, fallback) == text

\* text || fallback
OrFallback(text, fallback) == IF text # "" THEN text ELSE fallback

\* the outcome of a helper: the prompt variant it chose, the handle it sent
\* on, and the string it returns
Outcome(variant, sentOn, result) ==
    [variant |-> variant, sentOn |-> sentOn, result |-> result]

MenuUnavailable == "Sugestoes de IA indisponiveis no momento."
MenuFallback == "Bem-vindo a nossa pastelaria! Explore nossos deliciosos pasteis!"

\* the prompt variant chosen by the cart alone
PromptVariantByCart(history, cart) ==
    IF Len(cart) = 0 THEN "welcome"
    ELSE IF Len(history) = 0 THEN "complement"
    ELSE "upsell"

\* the if / else if / else of getMenuSuggestion
PromptVariant(history, cart) ==
    LET isNewCustomer == Len(history) = 0
    IN IF isNewCustomer /\ Len(cart) = 0 THEN "welcome"
       ELSE IF isNewCustomer /\ Len(cart) > 0 THEN "complement"
       ELSE "upsell"

GetMenuSuggestion(history, cart, menu, upstream) ==
    IF ~ai THEN Outcome("", NoChat, MenuUnavailable)
    ELSE LET variant == PromptVariant(history, cart)
         IN IF upstream.ok
            THEN Outcome(variant, NoChat,
                         OrFallback(ResponseText(upstream), MenuFallback))
            ELSE Outcome(variant, NoChat, MenuFallback)

DrinkNudge == "Que tal acompanhar com uma bebida?"
DessertNudge == "Que tal um doce para sobremesa?"
PopularNudge == "Que tal adicionar mais? Nossos clientes tambem adoram!"

Categories(cart) == {cart[i].category : i \in 1 .. Len(cart)}
ProductIds(cart) == {cart[i].id : i \in 1 .. Len(cart)}

\* the template nudge of getDynamicCartSuggestion: its variant and text, both
\* empty when the branch taken finds no product to offer
TemplateNudge(cart, menu) ==
    LET cartCategories == Categories(cart)
        cartProductIds == ProductIds(cart)
        drinks == SelectSeq(menu, LAMBDA p : p.category = "Bebida"
                                             /\ p.id \notin cartProductIds)
        desserts == SelectSeq(menu, LAMBDA p : p.category = "Doce"
                                               /\ p.id \notin cartProductIds)
        others == SelectSeq(menu, LAMBDA p : p.id \notin cartProductIds
                                             /\ p.popular)
    IN IF "Bebida" \notin cartCategories
       THEN IF Len(drinks) > 0 THEN <<"drink", DrinkNudge>> ELSE <<"", "">>
       ELSE IF "Doce" \notin cartCategories
       THEN IF Len(desserts) > 0 THEN <<"dessert", DessertNudge>> ELSE <<"", "">>
       ELSE IF Len(others) > 0 THEN <<"popular", PopularNudge>> ELSE <<"", "">>

GetDynamicCartSuggestion(cart, menu, upstream) ==
    IF ~ai THEN Outcome("", NoChat, "")
    ELSE IF Len(cart) = 0 THEN Outcome("", NoChat, "")
    ELSE LET nudge == TemplateNudge(cart, menu)
             suggestion == nudge[2]
         IN IF suggestion = "" THEN Outcome("", NoChat, "")
            ELSE IF upstream.ok
            THEN Outcome(nudge[1], NoChat,
                         OrFallback(ResponseText(upstream), suggestion))
            ELSE Outcome(nudge[1], NoChat, suggestion)

ChefUnavailable == "Mensagem do Chef indisponivel no momento."
ChefFallback == "Ola! O Chef recomenda experimentar nossos campeoes. Volte sempre!"

GetChefMessage(history, menu, upstream) ==
    IF ~ai THEN Outcome("", NoChat, ChefUnavailable)
    ELSE IF upstream.ok
    THEN Outcome("chef", NoChat, OrFallback(ResponseText(upstream), ChefFallback))
    ELSE Outcome("chef", NoChat, ChefFallback)

ChatUnavailable == "Chatbot indisponivel."
ChatEmpty == "Desculpe, nao consegui processar sua mensagem. Tente novamente."
ChatError == "Desculpe, estou com problemas para me conectar. Tente novamente mais tarde."

\* a new conversation handle whatever the current one
ChatAlwaysNew(current, created) == created + 1

\* if (!chat) startChat(): the handle the message is sent on
EnsureChat(current, created) ==
    IF current = NoChat THEN created + 1 ELSE current

SendMessageToChatbot(message, upstream) ==
    IF ~ai THEN Outcome("", NoChat, ChatUnavailable)
    ELSE LET handle == EnsureChat(chat, chatsCreated)
             path == IF chat = NoChat THEN "created" ELSE "reused"
         IN IF upstream.ok
            THEN Outcome(path, handle, OrFallback(ResponseText(upstream), ChatEmpty))
            ELSE Outcome(path, handle, ChatError)

\* a helper that keeps no state: its call and what it returned
Helper(fn, history, cart, menu, upstream, net, o) ==
    /\ aiCall' = Call(fn, history, cart, menu, upstream, net, o.variant, 0,
                      o.result, o.sentOn)
    /\ UNCHANGED <<genAI, ai, chat, chatsCreated>>
    /\ UNCHANGED <<kioskVars, asyncVars>>

CallGetMenuSuggestion(history, cart, menu, upstream) ==
    Helper("getMenuSuggestion", history, cart, menu, upstream, "up",
           GetMenuSuggestion(history, cart, menu, upstream))

CallGetDynamicCartSuggestion(cart, menu, upstream) ==
    Helper("getDynamicCartSuggestion", <<>>, cart, menu, upstream, "up",
           GetDynamicCartSuggestion(cart, menu, upstream))

CallGetChefMessage(history, menu, upstream) ==
    Helper("getChefMessage", history, <<>>, menu, upstream, "up",
           GetChefMessage(history, menu, upstream))

\* startChat(): ai.chats.create replaces the handle
StartChat ==
    /\ ai
    /\ chatsCreated < MaxChats
    /\ chat' = chatsCreated + 1
    /\ chatsCreated' = chatsCreated + 1
    /\ UNCHANGED <<genAI, ai, aiCall>>
    /\ UNCHANGED <<kioskVars, asyncVars>>

CallSendMessageToChatbot(message, upstream) ==
    LET o == SendMessageToChatbot(message, upstream)
    IN /\ o.sentOn <= MaxChats
       /\ aiCall' = Call("sendMessageToChatbot", <<>>, <<>>, <<>>, upstream,
                         "up", o.variant, 0, o.result, o.sentOn)
       /\ chat' = IF o.sentOn = NoChat THEN chat ELSE o.sentOn
       /\ chatsCreated' = IF o.sentOn > chatsCreated THEN o.sentOn
                          ELSE chatsCreated
       /\ UNCHANGED <<genAI, ai>>
       /\ UNCHANGED <<kioskVars, asyncVars>>

----------------------------------------------------------------------------
(* The completion service: the helpers of the kiosk page calling the *)
(* backend routes (second half of src/pages/KitchenPage.tsx)          *)

\* fetch resolves, or rejects (backend unreachable)
Nets == {"up", "down"}

RemoteMenuFallback == "Experimente nossos deliciosos pasteis com caldo de cana!"
RemoteMenuError == "Que tal um pastel quentinho hoje?"
RemoteChefFallback == "Ola, o Chef preparou tudo com carinho para voce!"
RemoteChefError == "Ola, seja bem-vindo a nossa pastelaria!"
RemoteChatFallback == "Desculpe, nao entendi. Pode repetir?"
RemoteChatError == "Estou com dificuldade de conexao no momento. Tente novamente mais tarde."

\* the prompt the helper builds: never empty
BuiltPrompt == "Aja como um assistente de vendas amigavel de uma pastelaria."

\* data.text of the parsed answer: undefined unless the route answered 200
DataText(answer) == IF answer.status = 200 THEN answer.text ELSE ""

RemoteGetMenuSuggestion(history, cart, menu, upstream, net) ==
    LET answer == PostAiSuggestion(BuiltPrompt, upstream)
    IN IF net = "down" \/ answer.status # 200
       THEN Outcome("", NoChat, RemoteMenuError)
       ELSE Outcome("", NoChat, OrFallback(DataText(answer), RemoteMenuFallback))

\* focusCategory
FocusCategory(cart) ==
    IF "Bebida" \notin Categories(cart) THEN "drink"
    ELSE IF "Doce" \notin Categories(cart) THEN "dessert"
    ELSE "popular"

RemoteGetDynamicCartSuggestion(cart, menu, upstream, net) ==
    LET answer == PostAiSuggestion(BuiltPrompt, upstream)
    IN IF Len(cart) = 0 THEN Outcome("", NoChat, "")
       ELSE IF net = "down" THEN Outcome(FocusCategory(cart), NoChat, "")
       ELSE Outcome(FocusCategory(cart), NoChat, OrFallback(DataText(answer), ""))

RemoteGetChefMessage(history, menu, upstream, net) ==
    LET answer == PostAiSuggestion(BuiltPrompt, upstream)
    IN IF net = "down" THEN Outcome("chef", NoChat, RemoteChefError)
       ELSE Outcome("chef", NoChat,
                    OrFallback(DataText(answer), RemoteChefFallback))

RemoteSendMessageToChatbot(message, upstream, net) ==
    LET answer == PostAiChat(message, upstream)
    IN IF net = "down" \/ answer.status # 200
       THEN Outcome(message, NoChat, RemoteChatError)
       ELSE Outcome(message, NoChat,
                    OrFallback(DataText(answer), RemoteChatFallback))

CallRemoteGetMenuSuggestion(history, cart, menu, upstream, net) ==
    Helper("remote getMenuSuggestion", history, cart, menu, upstream, net,
           RemoteGetMenuSuggestion(history, cart, menu, upstream, net))

CallRemoteGetDynamicCartSuggestion(cart, menu, upstream, net) ==
    Helper("remote getDynamicCartSuggestion", <<>>, cart, menu, upstream, net,
           RemoteGetDynamicCartSuggestion(cart, menu, upstream, net))

CallRemoteGetChefMessage(history, menu, upstream, net) ==
    Helper("remote getChefMessage", history, <<>>, menu, upstream, net,
           RemoteGetChefMessage(history, menu, upstream, net))

CallRemoteSendMessageToChatbot(message, upstream, net) ==
    Helper("remote sendMessageToChatbot", <<>>, <<>>, <<>>, upstream, net,
           RemoteSendMessageToChatbot(message, upstream, net))

\* a kiosk started with or without the keys of the completion service
InitAI ==
    /\ InitStores
    /\ genAI \in BOOLEAN
    /\ ai \in BOOLEAN
    /\ chat = NoChat
    /\ chatsCreated = 0
    /\ aiCall = NoCall

NextAI ==
    \/ \E prompt \in Prompts, upstream \in Upstreams :
           AiSuggestion(prompt, upstream)
    \/ \E message \in Prompts, upstream \in Upstreams :
           AiChat(message, upstream)
    \/ \E history \in Histories, cart \in Carts, upstream \in Upstreams :
           CallGetMenuSuggestion(history, cart, FullMenu, upstream)
    \/ \E cart \in Carts, menu \in Menus, upstream \in Upstreams :
           CallGetDynamicCartSuggestion(cart, menu, upstream)
    \/ \E history \in Histories, upstream \in Upstreams :
           CallGetChefMessage(history, FullMenu, upstream)
    \/ StartChat
    \/ \E message \in Prompts, upstream \in Upstreams :
           CallSendMessageToChatbot(message, upstream)
    \/ \E history \in Histories, cart \in Carts, upstream \in Upstreams,
          net \in Nets :
           CallRemoteGetMenuSuggestion(history, cart, FullMenu, upstream, net)
    \/ \E cart \in Carts, menu \in Menus, upstream \in Upstreams, net \in Nets :
           CallRemoteGetDynamicCartSuggestion(cart, menu, upstream, net)
    \/ \E history \in Histories, upstream \in Upstreams, net \in Nets :
           CallRemoteGetChefMessage(history, FullMenu, upstream, net)
    \/ \E message \in Prompts, upstream \in Upstreams, net \in Nets :
           CallRemoteSendMessageToChatbot(message, upstream, net)

SpecAI == InitAI /\ [][NextAI]_vars

----------------------------------------------------------------------------
(* The servers with several handlers in flight: every await of a handler *)
(* is a point where another handler may run                               *)

\* the name the customer of a slot gives
SlotNames == <<"Ana", "Bia", "Caio">>

\* the order a customer submits
RaceOrderBody(slot) ==
    [OrderBody(Id("u1", 0), Arr(<<Pastel>>), NotNum)
        EXCEPT !.userName = SlotNames[slot]]

\* two registrations of one CPF, written in two ways
RacingUsers ==
    { [id |-> Id("u1", 0), name |-> "Ana", email |-> "ana@example.com",
       cpf |-> CpfPlain, pontos |-> 0],
      [id |-> Id("u2", 0), name |-> "Bia", email |-> "bia@example.com",
       cpf |-> CpfPunct, pontos |-> 0] }

\* the first await of each handler
FirstPc(op) ==
    CASE op = "fSubmit" -> "readOrders"
      [] op = "fComplete" -> "readOrders"
      [] op = "fRegister" -> "readUsers"
      [] op = "sRegister" -> "check"

StoresKept ==
    UNCHANGED <<fUsers, fOrders, fUserOrders, sUsers, sOrders>>

\* what no step of an interleaved handler changes
RaceFrame ==
    /\ UNCHANGED <<now, resp, fDone, sDone, fAccepted, sAccepted, fReg201,
                   sReg201, nFaults, fDamaged, ui>>
    /\ UNCHANGED aiVars

\* a request arrives and its handler runs up to its first await
StartHandler(slot, op, arg) ==
    /\ inflight[slot].op = "idle"
    /\ started < MaxStarted
    /\ started' = started + 1
    /\ inflight' = [inflight EXCEPT ![slot] =
                       [Idle EXCEPT !.op = op, !.pc = FirstPc(op), !.arg = arg]]
    /\ StoresKept
    /\ RaceFrame

\* const orders = await readOrders()
AwaitReadOrders(slot) ==
    /\ inflight[slot].pc = "readOrders"
    /\ inflight' = [inflight EXCEPT ![slot].orders = ReadOrders,
                                    ![slot].pc = "readUserOrders"]
    /\ UNCHANGED started
    /\ StoresKept
    /\ RaceFrame

\* DELETE: after both reads, the 404 test and the changes to the arrays read
CompleteComputed(h) ==
    IF ~HasOrder(h.orders, h.arg)
    THEN [h EXCEPT !.pc = "done", !.status = 404]
    ELSE [h EXCEPT !.pc = "writeOrders",
                   !.orders = RemoveOrder(h.orders, h.arg),
                   !.userOrders = MarkCompleted(h.userOrders, h.arg,
                                                ToISOString(now))]

\* const userOrders = await readUserOrders()
AwaitReadUserOrders(slot) ==
    LET h == [inflight[slot] EXCEPT !.userOrders = ReadUserOrders]
    IN /\ inflight[slot].pc = "readUserOrders"
       /\ inflight' = [inflight EXCEPT ![slot] =
                          IF h.op = "fComplete" THEN CompleteComputed(h)
                          ELSE [h EXCEPT !.pc = "readUsers"]]
       /\ UNCHANGED started
       /\ StoresKept
       /\ RaceFrame

\* POST /api/orders: after the three reads, the order is built and pushed
\* onto the arrays read
SubmitComputed(h) ==
    LET payload == h.arg
        order == [id |-> OrderId(now),
                  userId |-> payload.userId,
                  userName |-> payload.userName,
                  items |-> SeqMap(LineItem, payload.items.els),
                  total |-> OrderTotal(payload),
                  timestamp |-> ToISOString(now),
                  status |-> "active",
                  completedAt |-> NoTime]
        userIdx == FindUserIndex(h.users, order.userId)
    IN [h EXCEPT !.pc = "writeOrders",
                 !.made = order,
                 !.orders = PushOrder(h.orders, order),
                 !.userOrders = Append(h.userOrders, order),
                 !.users = IF userIdx > 0
                           THEN [h.users EXCEPT ![userIdx].historico =
                                                    Append(@, order)]
                           ELSE h.users]

\* POST /api/users: after the read, the 409 test and the push of the user
RegisterComputed(h) ==
    LET payload == h.arg
        cpf == StripNonDigits(payload.cpf)
        newUser == [id |-> IdOrDefault(payload.id),
                    name |-> NameOrDefault(payload.name),
                    email |-> payload.email,
                    cpf |-> cpf,
                    historico |-> <<>>,
                    pontos |-> payload.pontos]
    IN IF FileCpfExists(h.users, cpf)
       THEN [h EXCEPT !.pc = "done", !.status = 409]
       ELSE [h EXCEPT !.pc = "writeUsers", !.made = newUser,
                      !.users = Append(h.users, newUser)]

\* const users = await readUsers()
AwaitReadUsers(slot) ==
    LET h == [inflight[slot] EXCEPT !.users = ReadUsers]
    IN /\ inflight[slot].pc = "readUsers"
       /\ inflight' = [inflight EXCEPT ![slot] =
                          IF h.op = "fSubmit" THEN SubmitComputed(h)
                          ELSE RegisterComputed(h)]
       /\ UNCHANGED started
       /\ StoresKept
       /\ RaceFrame

\* the document with the new entries of data added to what is stored
WriteJsonMerged(stored, data) ==
    stored \o SelectSeq(data, LAMBDA o :
                            \A i \in 1 .. Len(stored) : stored[i] # o)

\* fs.writeFile(file, JSON.stringify(data)): the document becomes data
WriteJson(stored, data) == data

\* await writeOrders(...)
AwaitWriteOrders(slot) ==
    /\ inflight[slot].pc = "writeOrders"
    /\ fOrders' = WriteJson(fOrders, inflight[slot].orders)
    /\ inflight' = [k \in Slots |->
                       IF k = slot
                       THEN [inflight[k] EXCEPT !.pc = "writeUserOrders",
                                                !.lastOrders = TRUE]
                       ELSE [inflight[k] EXCEPT !.lastOrders = FALSE]]
    /\ UNCHANGED <<started, fUsers, fUserOrders, sUsers, sOrders>>
    /\ RaceFrame

\* await writeUserOrders(...); DELETE then answers { ok: true }
AwaitWriteUserOrders(slot) ==
    /\ inflight[slot].pc = "writeUserOrders"
    /\ fUserOrders' = WriteJson(fUserOrders, inflight[slot].userOrders)
    /\ inflight' = [k \in Slots |->
                       IF k = slot
                       THEN IF inflight[k].op = "fComplete"
                            THEN [inflight[k] EXCEPT !.pc = "done",
                                                     !.status = 200,
                                                     !.lastUserOrders = TRUE]
                            ELSE [inflight[k] EXCEPT !.pc = "writeUsers",
                                                     !.lastUserOrders = TRUE]
                       ELSE [inflight[k] EXCEPT !.lastUserOrders = FALSE]]
    /\ UNCHANGED <<started, fUsers, fOrders, sUsers, sOrders>>
    /\ RaceFrame

\* await writeUsers(users); the handler then answers 201
AwaitWriteUsers(slot) ==
    /\ inflight[slot].pc = "writeUsers"
    /\ fUsers' = WriteJson(fUsers, inflight[slot].users)
    /\ inflight' = [inflight EXCEPT ![slot].pc = "done", ![slot].status = 201]
    /\ UNCHANGED <<started, fOrders, fUserOrders, sUsers, sOrders>>
    /\ RaceFrame

\* await db('users').where({ cpf: cpfLimpo }).first()
AwaitSqlCheck(slot) ==
    LET h == inflight[slot]
    IN /\ h.pc = "check"
       /\ inflight' = [inflight EXCEPT ![slot] =
                          IF SqlCpfExists(sUsers, StripNonDigits(h.arg.cpf))
                          THEN [h EXCEPT !.pc = "done", !.status = 409]
                          ELSE [h EXCEPT !.pc = "insert"]]
       /\ UNCHANGED started
       /\ StoresKept
       /\ RaceFrame

\* await db('users').insert(newUser)
AwaitSqlInsert(slot) ==
    LET h == inflight[slot]
        newUser == [id |-> IdOrDefault(h.arg.id),
                    name |-> NameOrDefault(h.arg.name),
                    email |-> h.arg.email,
                    cpf |-> StripNonDigits(h.arg.cpf),
                    historico |-> JsonStringify(<<>>),
                    pontos |-> 0]
        ok == SqlUserInsertOk(sUsers, newUser)
    IN /\ h.pc = "insert"
       /\ sUsers' = IF ok THEN Append(sUsers, newUser) ELSE sUsers
       /\ inflight' = [inflight EXCEPT ![slot] =
                          [h EXCEPT !.pc = "done", !.made = newUser,
                                    !.status = IF ok THEN 201 ELSE 500]]
       /\ UNCHANGED <<started, fUsers, fOrders, fUserOrders, sOrders>>
       /\ RaceFrame

\* the answer has been sent
FinishHandler(slot) ==
    /\ inflight[slot].pc = "done"
    /\ inflight' = [inflight EXCEPT ![slot] = Idle]
    /\ UNCHANGED started
    /\ StoresKept
    /\ RaceFrame

NextRace ==
    \/ Tick
    \/ \E slot \in Slots :
           \/ StartHandler(slot, "fSubmit", RaceOrderBody(slot))
           \/ \E id \in OrderIds \ {Id("nope", 0)} :
                  StartHandler(slot, "fComplete", id)
           \/ \E payload \in RacingUsers, op \in {"fRegister", "sRegister"} :
                  StartHandler(slot, op, payload)
           \/ AwaitReadOrders(slot)
           \/ AwaitReadUserOrders(slot)
           \/ AwaitReadUsers(slot)
           \/ AwaitWriteOrders(slot)
           \/ AwaitWriteUserOrders(slot)
           \/ AwaitWriteUsers(slot)
           \/ AwaitSqlCheck(slot)
           \/ AwaitSqlInsert(slot)
           \/ FinishHandler(slot)

SpecRace == Init /\ [][NextRace]_vars

----------------------------------------------------------------------------
(* The kiosk page: router (src/App.tsx), AuthProvider, and the menu page *)
(* with its checkout and its cart suggestion                             *)

ProtectedPaths == {"/menu", "/kitchen", "/admin"}
Paths == {"/", "/login"} \cup ProtectedPaths

\* <Route path=... element=... />
PageOf(path) ==
    CASE path = "/" -> "ScreensaverPage"
      [] path = "/login" -> "LoginPage"
      [] path = "/menu" -> "MenuPage"
      [] path = "/kitchen" -> "KitchenPage"
      [] path = "/admin" -> "AdminPage"

\* a wrapper that renders its children whoever is logged in
ProtectedRouteOpen(currentUser, path) == path

\* ProtectedRoute: <Navigate to="/" replace /> when there is no current user
ProtectedRoute(currentUser, path) ==
    IF IsNull(currentUser) THEN "/" ELSE path

\* the location the router settles at
Resolve(currentUser, path) ==
    IF path \in ProtectedPaths THEN ProtectedRoute(currentUser, path) ELSE path

\* the customer of the kiosk
Customers == { [id |-> Id("u1", 0), name |-> "Ana", historico |-> <<>>] }

\* the cart-suggestion effect of MenuPage: run on mount and whenever
\* cartItems changes
RunCartEffect(u) ==
    LET run == u.runs + 1
    IN IF Len(u.cartItems) > 0
       THEN [u EXCEPT !.runs = run,
                      !.fetches = @ \cup {[instance |-> u.instance, run |-> run,
                                           cart |-> u.cartItems]}]
       ELSE [u EXCEPT !.runs = run, !.cartSuggestion = "", !.suggestionRun = run]

\* the page after an event: the router settles, a MenuPage that left the
\* screen loses its state, one that enters it starts with fresh state and
\* runs its effects
Rerender(old, new) ==
    LET loc == Resolve(new.currentUser, new.location)
        page == PageOf(loc)
        routed == [new EXCEPT !.location = loc, !.rendered = page]
    IN IF page = "MenuPage" /\ old.rendered # "MenuPage"
       THEN RunCartEffect([routed EXCEPT !.instance = old.mounts + 1,
                                         !.mounts = old.mounts + 1,
                                         !.isPlacingOrder = FALSE,
                                         !.cartSuggestion = "",
                                         !.suggestionRun = 0])
       ELSE IF page # "MenuPage" /\ old.rendered = "MenuPage"
       THEN [routed EXCEPT !.instance = 0, !.isPlacingOrder = FALSE,
                           !.cartSuggestion = "", !.suggestionRun = 0]
       ELSE routed

\* what the events of the page leave alone
PageFrame ==
    /\ UNCHANGED <<kioskVars, aiVars>>
    /\ UNCHANGED <<inflight, started>>

\* an event is taken only while the run may still mount and run effects
WithinBounds(u) ==
    /\ u.mounts <= MaxMounts
    /\ u.runs <= MaxRuns

\* login(user)
Login(user) ==
    LET u == Rerender(ui, [ui EXCEPT !.currentUser = user,
                                     !.event = <<"login", ui.location>>])
    IN /\ IsNull(ui.currentUser)
       /\ WithinBounds(u)
       /\ ui' = u
       /\ PageFrame

\* logout()
Logout ==
    /\ ~IsNull(ui.currentUser)
    /\ ui' = Rerender(ui, [ui EXCEPT !.currentUser = Null,
                                     !.event = <<"logout", ui.location>>])
    /\ PageFrame

\* a link, the address bar or navigate(path)
NavigateTo(path) ==
    LET u == Rerender(ui, [ui EXCEPT !.location = path,
                                     !.event = <<"navigate", path>>])
    IN /\ path # ui.location
       /\ WithinBounds(u)
       /\ ui' = u
       /\ PageFrame

\* addToCart(product) on the menu page
AddToCart(product) ==
    LET u == RunCartEffect([ui EXCEPT !.cartItems =
                                          Append(@, CartItem(product, 1)),
                                      !.event = <<"add", product.id>>])
    IN /\ ui.rendered = "MenuPage"
       /\ Len(ui.cartItems) < MaxCart
       /\ product.id \notin ProductIds(ui.cartItems)
       /\ WithinBounds(u)
       /\ ui' = u
       /\ PageFrame

\* a click on the checkout button, which is disabled while isPlacingOrder
HandleCheckout ==
    /\ ui.rendered = "MenuPage"
    /\ ~ui.isPlacingOrder
    /\ ui.clicks < MaxClicks
    /\ ~IsNull(ui.currentUser)
    /\ Len(ui.cartItems) > 0
    /\ ui' = [ui EXCEPT !.isPlacingOrder = TRUE,
                        !.clicks = @ + 1,
                        !.event = <<"checkout", ui.location>>,
                        !.checkouts = @ \cup {[instance |-> ui.instance,
                                               n |-> ui.clicks + 1,
                                               items |-> ui.cartItems]}]
    /\ PageFrame

\* how a POST /api/orders of the page ends: 201, another status, or no answer
Outcomes == {"accepted", "rejected", "failed"}

\* addOrderToHistory(saved)
AddOrderToHistory(currentUser, saved) ==
    IF IsNull(currentUser) THEN Null
    ELSE [currentUser EXCEPT !.historico = Append(@, saved)]

\* the rest of handleCheckout, once fetch has settled: try, catch, finally
CheckoutSettled(req, outcome) ==
    LET saved == [n |-> req.n, items |-> req.items]
        sent == [ui EXCEPT !.checkouts = @ \ {req},
                           !.event = <<"settled", outcome>>]
        done == IF outcome = "accepted"
                THEN LET cleared == [sent EXCEPT
                                        !.currentUser = AddOrderToHistory(@, saved),
                                        !.cartItems = <<>>]
                     IN IF cleared.rendered = "MenuPage"
                        THEN RunCartEffect(cleared) ELSE cleared
                ELSE sent
    IN /\ req \in ui.checkouts
       /\ done.runs <= MaxRuns
       /\ ui' = IF req.instance = ui.instance
                THEN [done EXCEPT !.isPlacingOrder = FALSE]
                ELSE done
       /\ PageFrame

\* a getDynamicCartSuggestion call of the effect resolves:
\* setCartSuggestion(dynamicSuggestion), on the MenuPage that made the call
SuggestionSettled(fetch, upstream) ==
    LET answer == GetDynamicCartSuggestion(fetch.cart, FullMenu, upstream).result
        rest == [ui EXCEPT !.fetches = @ \ {fetch},
                           !.event = <<"suggested", answer>>]
    IN /\ fetch \in ui.fetches
       /\ ui' = IF fetch.instance = ui.instance
                THEN [rest EXCEPT !.cartSuggestion = answer,
                                  !.suggestionRun = fetch.run]
                ELSE rest
       /\ PageFrame

NextPage ==
    \/ \E user \in Customers : Login(user)
    \/ Logout
    \/ \E path \in Paths : NavigateTo(path)
    \/ \E i \in 1 .. Len(FullMenu) : AddToCart(FullMenu[i])
    \/ HandleCheckout
    \/ \E req \in ui.checkouts, outcome \in Outcomes : CheckoutSettled(req, outcome)
    \/ \E fetch \in ui.fetches, upstream \in Upstreams :
           SuggestionSettled(fetch, upstream)

SpecPage == InitAI /\ [][NextPage]_vars

\* every request of the page is answered or fails in the end
FairPage ==
    /\ WF_vars(\E req \in ui.checkouts, outcome \in Outcomes :
                   CheckoutSettled(req, outcome))
    /\ WF_vars(\E fetch \in ui.fetches, upstream \in Upstreams :
                   SuggestionSettled(fetch, upstream))

SpecPageFair == SpecPage /\ FairPage

----------------------------------------------------------------------------
(* Properties of the Order Service *)

Range(s) == {s[i] : i \in 1 .. Len(s)}

\* the instant a rendering stands for
FromISOString(ts) == ts[1] * 10 + ts[2]

\* the history holds id as a completed order with a completion timestamp
CompletedIn(history, id) ==
    \E o \in Range(history) :
        o.id = id /\ o.status = "completed" /\ o.completedAt # NoTime

\* C1: once completeOrder(id) has succeeded on an active order, every later
\* listActiveOrders() omits id and listHistory() holds id as completed, with
\* a non-empty completion timestamp (both revisions).
C1_CompletedLeavesQueue ==
    /\ \A id \in fDone :
           /\ ~HasOrder(FileGetOrders, id)
           /\ CompletedIn(FileGetUserOrders(NoId), id)
    /\ \A id \in sDone :
           /\ ~HasOrder(SqlGetOrders, id)
           /\ CompletedIn(SqlGetUserOrders(NoId), id)

\* C1, relational revision alone
C1_SqlCompletedLeavesQueue ==
    \A id \in sDone :
        /\ ~HasOrder(SqlGetOrders, id)
        /\ CompletedIn(SqlGetUserOrders(NoId), id)

\* no order stored by the file-backed revision has this id
UnknownToFile(id) ==
    /\ ~HasOrder(fOrders, id)
    /\ ~HasOrder(fUserOrders, id)
    /\ \A u \in Range(fUsers) : ~HasOrder(u.historico, id)

\* no order stored by the relational revision has this id
UnknownToSql(id) ==
    /\ ~HasOrder(sOrders, id)
    /\ \A u \in Range(sUsers) : ~HasOrder(JsonParse(u.historico), id)

\* C2: completeOrder on an id that no stored order has answers 404 and
\* leaves users, active queue and history as they were (both revisions).
C2_UnknownIdNotFound ==
    [][\A id \in OrderIds, fault \in 0 .. 2 :
           CompleteOrder(id, fault) =>
               /\ UnknownToFile(id) =>
                      resp'.fStatus = 404 /\ UNCHANGED fileStore
               /\ UnknownToSql(id) =>
                      resp'.sStatus = 404 /\ UNCHANGED sqlStore]_vars

\* C2 witness: both revisions hold orders and have just answered 404 for an
\* id none of them has
C2_Witness ==
    /\ resp.op = "complete"
    /\ resp.fStatus = 404
    /\ resp.sStatus = 404
    /\ UnknownToFile(resp.id)
    /\ UnknownToSql(resp.id)
    /\ fOrders # <<>>
    /\ fUserOrders # <<>>
    /\ sOrders # <<>>

\* the sum over the lines of price x quantity
RECURSIVE SumLines(_)
SumLines(items) ==
    IF items = <<>> THEN 0
    ELSE SumLines(SubSeq(items, 1, Len(items) - 1))
         + items[Len(items)].price * items[Len(items)].quantity

\* the total the contract asks for
ExpectedTotal(payload) ==
    IF payload.total.num THEN payload.total.v ELSE SumLines(payload.items.els)

Last(s) == s[Len(s)]

\* C3: an accepted submitOrder stores and returns the client's total when the
\* body carries a numeric one, and the sum of price x quantity otherwise.
C3_TotalStoredAndReturned ==
    [][\A payload \in OrderPayloads, fault \in Faults :
           SubmitOrder(payload, fault) =>
               /\ resp'.fStatus = 201 =>
                      /\ resp'.fBody[1].total = ExpectedTotal(payload)
                      /\ Last(fOrders').total = ExpectedTotal(payload)
                      /\ Last(fUserOrders').total = ExpectedTotal(payload)
               /\ resp'.sStatus = 201 =>
                      /\ resp'.sBody[1].total = ExpectedTotal(payload)
                      /\ Last(sOrders').total = ExpectedTotal(payload)]_vars

\* C3 witness: each history holds an order carrying the client's total, which
\* is not the sum of its lines, and an order carrying the sum of its lines
C3_Witness ==
    /\ resp.op = "submit"
    /\ resp.fStatus = 201
    /\ resp.sStatus = 201
    /\ \A history \in {fUserOrders, SqlGetUserOrders(NoId)} :
           /\ \E o \in Range(history) :
                  o.total = 7 /\ SumLines(o.items) # 7
           /\ \E o \in Range(history) :
                  o.total = 30 /\ SumLines(o.items) = 30

\* the length of a CPF
CpfLength == 11

\* C4: of the registerUser requests whose CPFs normalize to the same 11
\* digits, exactly one is answered 201 and every other one 409: with the
\* storage accepting every write, a request is answered 409 when an earlier
\* one with the same digits was answered 201, and 201 otherwise.
C4_DuplicateCpfConflict ==
    [][\A payload \in UserPayloads :
           (RegisterUser(payload, 0)
            /\ Len(DigitsOf(payload.cpf)) = CpfLength) =>
               /\ resp'.fStatus =
                      IF DigitsOf(payload.cpf) \in fReg201 THEN 409 ELSE 201
               /\ resp'.sStatus =
                      IF DigitsOf(payload.cpf) \in sReg201 THEN 409 ELSE 201]_vars

\* C4, file-backed revision alone
C4_FileDuplicateCpfConflict ==
    [][\A payload \in UserPayloads :
           (RegisterUser(payload, 0)
            /\ Len(DigitsOf(payload.cpf)) = CpfLength) =>
               resp'.fStatus =
                   IF DigitsOf(payload.cpf) \in fReg201 THEN 409 ELSE 201]_vars

\* the history holds an order with the id, the lines and the total answered
HoldsAnswered(history, answered) ==
    \E o \in Range(history) :
        /\ o.id = answered.id
        /\ o.items = answered.items
        /\ o.total = answered.total

\* C5: after submitOrder has answered 201, listHistory(userId) holds an order
\* with the answered id whose lines and total are those of the answer.
C5_SubmitHistoryRoundTrip ==
    /\ (resp.op = "submit" /\ resp.fStatus = 201) =>
           HoldsAnswered(FileGetUserOrders(resp.fBody[1].userId), resp.fBody[1])
    /\ (resp.op = "submit" /\ resp.sStatus = 201) =>
           HoldsAnswered(SqlGetUserOrders(resp.sBody[1].userId), resp.sBody[1])

\* C5 witness: an order with lines has just been accepted by both revisions,
\* and each history also holds an order of another user
C5_Witness ==
    /\ resp.op = "submit"
    /\ resp.fStatus = 201
    /\ resp.sStatus = 201
    /\ resp.fBody[1].items # <<>>
    /\ resp.sBody[1].items # <<>>
    /\ Len(FileGetUserOrders(resp.fBody[1].userId)) < Len(FileGetUserOrders(NoId))
    /\ Len(SqlGetUserOrders(resp.sBody[1].userId)) < Len(SqlGetUserOrders(NoId))

\* the list is in ascending order of creation time
AscendingByCreation(list) ==
    \A i, j \in 1 .. Len(list) :
        i < j => FromISOString(list[i].timestamp) <= FromISOString(list[j].timestamp)

\* C6: after any sequence of submitOrder and completeOrder, listActiveOrders()
\* is sorted by ascending creation timestamp (both revisions).
C6_ActiveOrdersAscending ==
    /\ AscendingByCreation(FileGetOrders)
    /\ AscendingByCreation(SqlGetOrders)

\* C6 witness: each queue holds two orders created at different instants
C6_Witness ==
    /\ Len(FileGetOrders) = 2
    /\ FileGetOrders[1].timestamp # FileGetOrders[2].timestamp
    /\ Len(SqlGetOrders) = 2
    /\ SqlGetOrders[1].timestamp # SqlGetOrders[2].timestamp

\* no two orders of the list share an id
DistinctIds(list) ==
    \A i, j \in 1 .. Len(list) : i # j => list[i].id # list[j].id

\* C7: every accepted order has an id of its own, also when two submissions
\* are handled within one clock tick: no two orders in the history share an id.
C7_UniqueOrderIds ==
    /\ DistinctIds(FileGetUserOrders(NoId))
    /\ DistinctIds(SqlGetUserOrders(NoId))

\* C7, relational revision alone
C7_SqlUniqueOrderIds == DistinctIds(SqlGetUserOrders(NoId))

\* the history holds id exactly once, as active exactly when the queue holds
\* it and as completed exactly when the queue does not
ReflectsLifecycle(history, queue, id) ==
    /\ Cardinality({i \in 1 .. Len(history) : history[i].id = id}) = 1
    /\ \A o \in Range(history) :
           o.id = id =>
               /\ o.status = "active" <=> HasOrder(queue, id)
               /\ o.status = "completed" <=> ~HasOrder(queue, id)

\* C8: in every reachable state each accepted order is exactly once in the
\* history, active there exactly when it is in the active queue and completed
\* exactly when it is not.
C8_HistoryReflectsLifecycle ==
    /\ \A id \in fAccepted :
           ReflectsLifecycle(FileGetUserOrders(NoId), FileGetOrders, id)
    /\ \A id \in sAccepted :
           ReflectsLifecycle(SqlGetUserOrders(NoId), SqlGetOrders, id)

\* C8, relational revision alone
C8_SqlHistoryReflectsLifecycle ==
    \A id \in sAccepted :
        ReflectsLifecycle(SqlGetUserOrders(NoId), SqlGetOrders, id)

\* the owning user, if there is one, has the order in the embedded history
InOwnersHistory(historicos, users, order) ==
    \A i \in 1 .. Len(users) :
        i = FindUserIndex(users, order.userId) => HasOrder(historicos[i], order.id)

\* C9: submitOrder is all-or-nothing: a failed write makes the answer 500 and
\* leaves the order in none of the collections; an answer 201 means the order
\* is in the active queue, the history and the owner's embedded history.
C9_SubmitAllOrNothing ==
    [][\A payload \in OrderPayloads, fault \in Faults :
           SubmitOrder(payload, fault) =>
               /\ (~InvalidOrderBody(payload) /\ fault # 0) => resp'.fStatus = 500
               /\ resp'.fStatus = 500 => UNCHANGED fileStore
               /\ resp'.fStatus = 201 =>
                      /\ HasOrder(fOrders', resp'.fBody[1].id)
                      /\ HasOrder(fUserOrders', resp'.fBody[1].id)
                      /\ InOwnersHistory([i \in 1 .. Len(fUsers') |->
                                             fUsers'[i].historico],
                                         fUsers', resp'.fBody[1])
               /\ (~InvalidOrderBody(payload) /\ fault = 1) => resp'.sStatus = 500
               /\ resp'.sStatus = 500 => UNCHANGED sqlStore
               /\ resp'.sStatus = 201 =>
                      /\ HasOrder(sOrders', resp'.sBody[1].id)
                      /\ InOwnersHistory([i \in 1 .. Len(sUsers') |->
                                             JsonParse(sUsers'[i].historico)],
                                         sUsers', resp'.sBody[1])]_vars

\* C9, relational revision alone
C9_SqlSubmitAllOrNothing ==
    [][\A payload \in OrderPayloads, fault \in Faults :
           SubmitOrder(payload, fault) =>
               /\ (~InvalidOrderBody(payload) /\ fault = 1) => resp'.sStatus = 500
               /\ resp'.sStatus = 500 => UNCHANGED sqlStore
               /\ resp'.sStatus = 201 =>
                      /\ HasOrder(sOrders', resp'.sBody[1].id)
                      /\ InOwnersHistory([i \in 1 .. Len(sUsers') |->
                                             JsonParse(sUsers'[i].historico)],
                                         sUsers', resp'.sBody[1])]_vars

\* the body breaks an input constraint of submitOrder
BreaksConstraints(payload) ==
    \/ ~Truthy(payload.userId)
    \/ ~payload.items.arr
    \/ payload.items.els = <<>>
    \/ \E it \in Range(payload.items.els) : it.quantity <= 0 \/ it.price < 0

\* C10: submitOrder answers 400 and changes no collection whenever userId is
\* missing or empty, items is no sequence or an empty one, or some item has
\* quantity <= 0 or price < 0.
C10_InvalidOrderRejected ==
    [][\A payload \in OrderPayloads, fault \in Faults :
           (SubmitOrder(payload, fault) /\ BreaksConstraints(payload)) =>
               /\ resp'.fStatus = 400
               /\ resp'.sStatus = 400
               /\ UNCHANGED fileStore
               /\ UNCHANGED sqlStore]_vars

\* C10, the part the handlers enforce: a missing userId or items that is no
\* array
C10_MalformedBodyRejected ==
    [][\A payload \in OrderPayloads, fault \in Faults :
           (SubmitOrder(payload, fault) /\ InvalidOrderBody(payload)) =>
               /\ resp'.fStatus = 400
               /\ resp'.sStatus = 400
               /\ UNCHANGED fileStore
               /\ UNCHANGED sqlStore]_vars

\* the statuses POST /api/orders may answer with
OrderStatuses == {201, 400, 500}

\* C11: every POST /api/orders request, whatever its body, ends with one
\* answer of the handler whose status is 201, 400 or 500: no request is left
\* without an answer and no error escapes the handler (both revisions).
C11_OrderAlwaysAnswered ==
    [][\A payload \in AnyOrderPayloads, fault \in Faults :
           SubmitOrder(payload, fault) =>
               /\ resp'.fStatus \in OrderStatuses
               /\ resp'.sStatus \in OrderStatuses]_vars

\* C11, file-backed revision alone
C11_FileOrderAlwaysAnswered ==
    [][\A payload \in AnyOrderPayloads, fault \in Faults :
           SubmitOrder(payload, fault) =>
               resp'.fStatus \in OrderStatuses]_vars

\* C12: completeOrder on the id of an order that has left the active queue
\* because it was completed answers 404 and leaves the order's status and
\* completion timestamp in the history as they were: only the first
\* completeOrder on an id succeeds (both revisions).
C12_CompletedOnlyOnce ==
    [][\A id \in OrderIds, fault \in 0 .. 2 :
           CompleteOrder(id, fault) =>
               /\ (id \in fDone /\ ~HasOrder(FileGetOrders, id)) =>
                      (resp'.fStatus = 404 /\ UNCHANGED fileStore)
               /\ (id \in sDone /\ ~HasOrder(SqlGetOrders, id)) =>
                      (resp'.sStatus = 404 /\ UNCHANGED sqlStore)]_vars

\* C12, file-backed revision alone
C12_FileCompletedOnlyOnce ==
    [][\A id \in OrderIds, fault \in 0 .. 2 :
           (CompleteOrder(id, fault)
            /\ id \in fDone /\ ~HasOrder(FileGetOrders, id)) =>
               (resp'.fStatus = 404 /\ UNCHANGED fileStore)]_vars

\* no stored user has the CPF's normalized form
NotYetRegistered(users, cpf) ==
    \A i \in 1 .. Len(users) : users[i].cpf # DigitsOf(cpf)

\* C13: registerUser with a CPF whose normalized form is not yet registered
\* succeeds (201) and creates a user with 0 points and an empty history,
\* whatever else the body carries or omits (both revisions, the storage
\* accepting every write).
C13_NewCpfRegisters ==
    [][\A payload \in UserPayloads :
           (RegisterUser(payload, 0) /\ payload.cpf # CpfMissing) =>
               /\ NotYetRegistered(fUsers, payload.cpf) =>
                      /\ resp'.fStatus = 201
                      /\ Len(fUsers') = Len(fUsers) + 1
                      /\ Last(fUsers').pontos = 0
                      /\ Last(fUsers').historico = <<>>
               /\ NotYetRegistered(sUsers, payload.cpf) =>
                      /\ resp'.sStatus = 201
                      /\ Len(sUsers') = Len(sUsers) + 1
                      /\ Last(sUsers').pontos = 0
                      /\ JsonParse(Last(sUsers').historico) = <<>>]_vars

\* C13, the part both revisions keep: a user is stored exactly when the
\* answer is 201, and a request that meets no stored CPF is never answered 409
C13_NewCpfNeverConflicts ==
    [][\A payload \in UserPayloads :
           (RegisterUser(payload, 0) /\ payload.cpf # CpfMissing) =>
               /\ NotYetRegistered(fUsers, payload.cpf) => resp'.fStatus = 201
               /\ NotYetRegistered(sUsers, payload.cpf) => resp'.sStatus # 409
               /\ resp'.fStatus = 201 <=> Len(fUsers') = Len(fUsers) + 1
               /\ resp'.sStatus = 201 <=> Len(sUsers') = Len(sUsers) + 1]_vars

\* the status the AI routes are to answer with
ExpectedAiStatus(field, upstream) ==
    IF ~genAI THEN 503
    ELSE IF field = "" THEN 400
    ELSE IF ~upstream.ok THEN 503
    ELSE 200

\* C14: POST /api/ai/suggestion and POST /api/ai/chat answer 503 when the
\* completion service is disabled or its call fails, 400 when it is enabled
\* and the prompt/message is missing, and 200 with the text otherwise; no
\* other status is produced.
C14_AiRouteStatuses ==
    [][\A field \in Prompts, upstream \in Upstreams :
           (AiSuggestion(field, upstream) \/ AiChat(field, upstream)) =>
               /\ aiCall'.status = ExpectedAiStatus(field, upstream)
               /\ aiCall'.status = 200 => aiCall'.result = upstream.text]_vars

\* C14, with a failed call left out
C14_AiRouteStatusesCallOk ==
    [][\A field \in Prompts, upstream \in Upstreams :
           ((AiSuggestion(field, upstream) \/ AiChat(field, upstream))
            /\ upstream.ok) =>
               /\ aiCall'.status = ExpectedAiStatus(field, upstream)
               /\ aiCall'.status = 200 => aiCall'.result = upstream.text]_vars

\* the list is in descending order of creation time
DescendingByCreation(list) ==
    \A i, j \in 1 .. Len(list) :
        i < j => FromISOString(list[i].timestamp) >= FromISOString(list[j].timestamp)

\* the ?userId= values asked for; NoId stands for none
HistoryOwners == {NoId, Id("u1", 0), Id("u2", 0)}

\* the answer holds the stored orders of the owner, each as often as stored,
\* and no other
ExactlyOwnedBy(answer, stored, userId) ==
    /\ \A o \in Range(answer) : Truthy(userId) => o.userId = userId
    /\ \A o \in Range(stored) :
           (Truthy(userId) => o.userId = userId) =>
               Cardinality({i \in 1 .. Len(answer) : answer[i].id = o.id}) =
               Cardinality({i \in 1 .. Len(stored) :
                               /\ stored[i].id = o.id
                               /\ Truthy(userId) => stored[i].userId = userId})
    /\ Len(answer) =
           Cardinality({i \in 1 .. Len(stored) :
                           Truthy(userId) => stored[i].userId = userId})

\* C15: listHistory(userId) returns exactly the history orders whose owner is
\* userId (all of them when userId is absent), in descending order of
\* creation time (both revisions).
C15_HistoryNewestFirst ==
    \A userId \in HistoryOwners :
        /\ ExactlyOwnedBy(FileGetUserOrders(userId), fUserOrders, userId)
        /\ DescendingByCreation(FileGetUserOrders(userId))
        /\ ExactlyOwnedBy(SqlGetUserOrders(userId), sOrders, userId)
        /\ DescendingByCreation(SqlGetUserOrders(userId))

\* C15, relational revision alone, and the filter of the file-backed one
C15_SqlHistoryNewestFirst ==
    \A userId \in HistoryOwners :
        /\ ExactlyOwnedBy(FileGetUserOrders(userId), fUserOrders, userId)
        /\ ExactlyOwnedBy(SqlGetUserOrders(userId), sOrders, userId)
        /\ DescendingByCreation(SqlGetUserOrders(userId))

\* the read handlers answer with an empty list for a damaged document
DamagedReadsEmpty ==
    /\ "orders" \in fDamaged => FileGetOrders = <<>>
    /\ "userOrders" \in fDamaged =>
           \A userId \in HistoryOwners : FileGetUserOrders(userId) = <<>>

\* the write handlers go on as if a damaged document were an empty list, and
\* what they write is a document that parses again
DamagedWritesAsEmpty ==
    /\ \A payload \in KioskUsers :
           (RegisterUser(payload, 0) /\ "users" \in fDamaged) =>
               /\ resp'.fStatus = 201
               /\ fUsers' = resp'.fBody
               /\ "users" \notin fDamaged'
    /\ \A payload \in OrderPayloads :
           (SubmitOrder(payload, 0) /\ ~InvalidOrderBody(payload)) =>
               /\ resp'.fStatus = 201
               /\ "orders" \in fDamaged => fOrders' = resp'.fBody
               /\ "userOrders" \in fDamaged => fUserOrders' = resp'.fBody
               /\ "users" \in fDamaged => fUsers' = <<>>
               /\ fDamaged' = {}
    /\ \A id \in OrderIds :
           CompleteOrder(id, 0) =>
               /\ resp'.fStatus \in {200, 404}
               /\ "orders" \in fDamaged =>
                      (resp'.fStatus = 404 /\ UNCHANGED fileStore)
               /\ ("userOrders" \in fDamaged /\ resp'.fStatus = 200) =>
                      (fUserOrders' = <<>> /\ "userOrders" \notin fDamaged')

\* C16: loading a collection whose backing file is missing or does not parse
\* yields the empty collection and never fails the caller: every read handler
\* still answers (with the empty list) and every write handler proceeds as if
\* the collection were empty.
C16_DamagedFileLoadsEmpty ==
    []DamagedReadsEmpty /\ [][DamagedWritesAsEmpty]_vars

\* C16 witness: orders.json was damaged while it held an order; the next
\* order was accepted and is alone in the rewritten queue, the history
\* holding both orders as active
C16_Witness ==
    /\ resp.op = "submit"
    /\ resp.fStatus = 201
    /\ fDamaged = {}
    /\ nFaults = 1
    /\ fOrders = resp.fBody
    /\ Len(fUserOrders) = 2
    /\ fUserOrders[1].status = "active"
    /\ fUserOrders[1].id # fUserOrders[2].id

\* C17: getMenuSuggestion with the service configured picks its prompt from
\* the history and the cart alone: the welcome prompt for an empty history and
\* an empty cart, the complement prompt for an empty history and a cart with
\* items, the upsell prompt for any non-empty history whatever the cart.
ExpectedVariant(history, cart) ==
    IF history = <<>> /\ cart = <<>> THEN "welcome"
    ELSE IF history = <<>> THEN "complement"
    ELSE "upsell"

C17_PromptByHistoryAndCart ==
    aiCall.fn = "getMenuSuggestion" /\ ai
        => aiCall.variant = ExpectedVariant(aiCall.history, aiCall.cart)

\* C17: a returning customer with an empty cart was given the upsell prompt.
C17_Witness ==
    /\ ai
    /\ aiCall.fn = "getMenuSuggestion"
    /\ aiCall.history # <<>>
    /\ aiCall.cart = <<>>
    /\ aiCall.variant = "upsell"

\* C18: getMenuSuggestion, getChefMessage and sendMessageToChatbot, called
\* with well-typed arguments, always return a non-empty string: the text of the
\* completion service when the call succeeded with a non-empty text, and
\* otherwise (service disabled, call failed, text empty) one of the fixed
\* fallback strings of the helper.
ServiceText(upstream) ==
    IF upstream.text # "" THEN upstream.text ELSE upstream.candidate

TextOrFallback(result, succeeded, text, fallbacks) ==
    /\ result # ""
    /\ IF succeeded /\ text # "" THEN result = text ELSE result \in fallbacks

Fallbacks(fn) ==
    IF fn = "getMenuSuggestion" THEN {MenuUnavailable, MenuFallback}
    ELSE IF fn = "getChefMessage" THEN {ChefUnavailable, ChefFallback}
    ELSE IF fn = "sendMessageToChatbot" THEN {ChatUnavailable, ChatEmpty, ChatError}
    ELSE IF fn = "remote getMenuSuggestion"
    THEN {RemoteMenuFallback, RemoteMenuError}
    ELSE IF fn = "remote getChefMessage"
    THEN {RemoteChefFallback, RemoteChefError}
    ELSE {RemoteChatFallback, RemoteChatError}

C18_TextOrFallback ==
    LET c == aiCall
    IN /\ c.fn \in {"getMenuSuggestion", "getChefMessage", "sendMessageToChatbot"}
           => TextOrFallback(c.result, ai /\ c.upstream.ok,
                             ServiceText(c.upstream), Fallbacks(c.fn))
       /\ c.fn \in {"remote getMenuSuggestion", "remote getChefMessage"}
           => TextOrFallback(c.result, genAI /\ c.net = "up" /\ c.upstream.ok,
                             c.upstream.text, Fallbacks(c.fn))
       /\ c.fn = "remote sendMessageToChatbot"
           => TextOrFallback(c.result,
                             genAI /\ c.net = "up" /\ c.upstream.ok
                                 /\ c.variant # "",
                             c.upstream.text, Fallbacks(c.fn))

\* C18: with the service configured, a call that came back empty was answered
\* with the fallback of getMenuSuggestion.
C18_Witness ==
    /\ ai
    /\ aiCall.fn = "getMenuSuggestion"
    /\ aiCall.upstream.ok
    /\ ServiceText(aiCall.upstream) = ""
    /\ aiCall.result = MenuFallback

\* the nudge a cart is to get by its category coverage
ExpectedNudge(cart) ==
    IF "Bebida" \notin Categories(cart) THEN "drink"
    ELSE IF "Doce" \notin Categories(cart) THEN "dessert"
    ELSE "popular"

\* the menu offers a Sweet that is not in the cart
OffersSweet(cart, menu) ==
    \E i \in 1 .. Len(menu) :
        menu[i].category = "Doce" /\ menu[i].id \notin ProductIds(cart)

\* C19, first part: getDynamicCartSuggestion returns "" for an empty cart, and
\* a non-empty answer is the nudge of the cart's category coverage: a drink
\* when the cart has no Beverage, else a dessert when it has no Sweet, else
\* another popular item.
C19_NudgeByCoverage ==
    aiCall.fn \in {"getDynamicCartSuggestion", "remote getDynamicCartSuggestion"}
        => /\ aiCall.cart = <<>> => aiCall.result = ""
           /\ aiCall.result # "" => aiCall.variant = ExpectedNudge(aiCall.cart)

\* C19: getDynamicCartSuggestion returns "" for an empty cart and otherwise
\* picks its nudge from the cart's category coverage; with the service
\* configured, a cart lacking both Beverage and Sweet gets a non-empty nudge
\* whenever the menu offers a Sweet that is not in the cart.
C19_CartNudge ==
    /\ C19_NudgeByCoverage
    /\ ( /\ aiCall.fn = "getDynamicCartSuggestion"
         /\ ai
         /\ aiCall.cart # <<>>
         /\ "Bebida" \notin Categories(aiCall.cart)
         /\ "Doce" \notin Categories(aiCall.cart)
         /\ OffersSweet(aiCall.cart, aiCall.menu) )
       => aiCall.result # ""

\* C20: with the completion service available, sendMessageToChatbot sends
\* every message on a conversation handle; it creates the handle exactly when
\* none exists, and otherwise sends on the one it has, whether or not the
\* earlier calls failed.
C20_HandleCreatedOnceThenReused ==
    [][\A message \in Prompts, upstream \in Upstreams :
           (CallSendMessageToChatbot(message, upstream) /\ ai) =>
               /\ aiCall'.sentOn # NoChat
               /\ aiCall'.sentOn = chat'
               /\ chat = NoChat => chatsCreated' = chatsCreated + 1
               /\ chat # NoChat => chat' = chat /\ chatsCreated' = chatsCreated]_vars

\* C20: a message was sent on the handle an earlier call had created, and its
\* call failed; the handle is still the first one.
C20_Witness ==
    /\ ai
    /\ aiCall.fn = "sendMessageToChatbot"
    /\ aiCall.variant = "reused"
    /\ aiCall.result = ChatError
    /\ aiCall.sentOn = 1
    /\ chat = 1
    /\ chatsCreated = 1

\* the CPF is made of digits only
DigitsOnly(cpf) == \A i \in 1 .. Len(cpf) : cpf[i] \in Digits

\* C23: every user stored by registerUser has a CPF made only of digits and
\* exactly 11 characters long, so that a request whose CPF normalizes to fewer
\* or more than 11 digits creates no user.
C23_StoredCpfElevenDigits ==
    \A users \in {fUsers, sUsers} :
        \A i \in 1 .. Len(users) :
            DigitsOnly(users[i].cpf) /\ Len(users[i].cpf) = CpfLength

\* C23, the length left out: a stored CPF is made of digits only
C23_StoredCpfDigitsOnly ==
    \A users \in {fUsers, sUsers} :
        \A i \in 1 .. Len(users) : DigitsOnly(users[i].cpf)

\* the embedded histories of the users, one per user
FileHistoricos(users) == [i \in 1 .. Len(users) |-> users[i].historico]
SqlHistoricos(users) == [i \in 1 .. Len(users) |-> JsonParse(users[i].historico)]

\* every embedded copy is active and carries no completion timestamp
EmbeddedActive(historicos) ==
    \A i \in 1 .. Len(historicos) :
        \A k \in 1 .. Len(historicos[i]) :
            /\ historicos[i][k].status = "active"
            /\ historicos[i][k].completedAt = NoTime

\* C24: completeOrder leaves the users collection unchanged: after it, the
\* copy of the order embedded in the owner's historico still has status
\* "active" and no completion timestamp.
C24_CompleteLeavesUsers ==
    [][\A id \in OrderIds, fault \in 0 .. 2 :
           CompleteOrder(id, fault) =>
               /\ fUsers' = fUsers
               /\ sUsers' = sUsers
               /\ EmbeddedActive(FileHistoricos(fUsers'))
               /\ EmbeddedActive(SqlHistoricos(sUsers'))]_vars

\* C24: an order was completed in both revisions while its owner holds a
\* copy of it in the embedded history.
C24_Witness ==
    /\ resp.op = "complete"
    /\ resp.fStatus = 200
    /\ resp.sStatus = 200
    /\ \E i \in 1 .. Len(fUsers) : HasOrder(fUsers[i].historico, resp.id)
    /\ \E i \in 1 .. Len(sUsers) :
           HasOrder(JsonParse(sUsers[i].historico), resp.id)

\* the orders with another id: the same ones, in the same relative order,
\* with the same fields
OtherIdsKept(before, after, id) ==
    SelectSeq(after, LAMBDA o : o.id # id) = SelectSeq(before, LAMBDA o : o.id # id)

\* the positions of the list whose order was changed
ChangedAt(before, after) ==
    {i \in 1 .. Len(before) : i > Len(after) \/ after[i] # before[i]}

\* C27, for the orders with another id: completeOrder(id) keeps them in the
\* active queue, in their relative order, and keeps their records in the
\* history as they were.
C27_OtherIdsUntouched ==
    [][\A id \in OrderIds, fault \in 0 .. 2 :
           CompleteOrder(id, fault) =>
               /\ OtherIdsKept(fOrders, fOrders', id)
               /\ OtherIdsKept(fUserOrders, fUserOrders', id)
               /\ OtherIdsKept(sOrders, sOrders', id)]_vars

\* C27: completeOrder(id) changes one order only: at most one order leaves
\* the active queue and at most one record of the history is changed, and
\* every other order keeps its membership and relative position in the queue
\* and its status and fields in the history.
C27_CompleteChangesOneOrder ==
    [][\A id \in OrderIds, fault \in 0 .. 2 :
           CompleteOrder(id, fault) =>
               /\ OtherIdsKept(fOrders, fOrders', id)
               /\ OtherIdsKept(fUserOrders, fUserOrders', id)
               /\ OtherIdsKept(sOrders, sOrders', id)
               /\ Len(fOrders) - Len(fOrders') <= 1
               /\ Len(fUserOrders') = Len(fUserOrders)
               /\ Cardinality(ChangedAt(fUserOrders, fUserOrders')) <= 1
               /\ Len(sOrders') = Len(sOrders)
               /\ Cardinality(ChangedAt(sOrders, sOrders')) <= 1]_vars

\* C27, relational revision alone
C27_SqlCompleteChangesOneOrder ==
    [][\A id \in OrderIds, fault \in 0 .. 2 :
           CompleteOrder(id, fault) =>
               /\ OtherIdsKept(sOrders, sOrders', id)
               /\ Len(sOrders') = Len(sOrders)
               /\ Cardinality(ChangedAt(sOrders, sOrders')) <= 1]_vars

\* the (id, status, total) of the records of a list
Records(list) ==
    {[id |-> o.id, status |-> o.status, total |-> o.total] : o \in Range(list)}

\* the two revisions show the same active orders and the same history
SameOrders ==
    /\ Records(FileGetOrders) = Records(SqlGetOrders)
    /\ Records(FileGetUserOrders(NoId)) = Records(SqlGetUserOrders(NoId))

\* C26: the file-backed and the relational Order Service are equivalent: after
\* any sequence of requests handled one at a time, with every storage write
\* succeeding, both have answered the last request with the same status and
\* both show the same active orders and the same history records
\* (id, status, total).
C26_RevisionsEquivalent ==
    nFaults = 0 => resp.fStatus = resp.sStatus /\ SameOrders

\* C26, as long as no order was completed and no clock value was used for two
\* orders
C26_EquivalentUntilCompletion ==
    (nFaults = 0 /\ fDone = {} /\ sDone = {} /\ DistinctIds(fUserOrders))
        => resp.fStatus = resp.sStatus /\ SameOrders

\* both handlers are submitOrder handlers that have answered 201, neither
\* had read the other's order, and b is the one that wrote the queue last
RacedSubmits(a, b) ==
    /\ a # b
    /\ inflight[a].op = "fSubmit" /\ inflight[a].status = 201
    /\ inflight[b].op = "fSubmit" /\ inflight[b].status = 201
    /\ inflight[a].made \notin Range(inflight[b].orders)
    /\ inflight[b].made \notin Range(inflight[a].orders)
    /\ inflight[b].lastOrders

\* C21: in the file-backed store, when two submitOrder handlers have both
\* read before either one wrote, both answer 201 and the active queue, as
\* written by the handler that wrote it last, holds that handler's order and
\* not the order of the earlier writer; the same holds of the history.
C21_EarlierWriterLost ==
    \A a, b \in Slots :
        /\ RacedSubmits(a, b) =>
               /\ inflight[b].made \in Range(fOrders)
               /\ inflight[a].made \notin Range(fOrders)
        /\ ( /\ a # b
             /\ inflight[a].op = "fSubmit" /\ inflight[a].status = 201
             /\ inflight[b].op = "fSubmit" /\ inflight[b].status = 201
             /\ inflight[a].made \notin Range(inflight[b].userOrders)
             /\ inflight[b].made \notin Range(inflight[a].userOrders)
             /\ inflight[b].lastUserOrders )
           => /\ inflight[b].made \in Range(fUserOrders)
              /\ inflight[a].made \notin Range(fUserOrders)

\* C21: two submitOrder handlers that raced have both answered 201 and the
\* queue and the history hold one order.
C21_Witness ==
    /\ \E a, b \in Slots : RacedSubmits(a, b) /\ inflight[b].lastUserOrders
    /\ Len(fOrders) = 1
    /\ Len(fUserOrders) = 1

\* no two users of the list have the same normalized CPF
DistinctCpfs(users) ==
    \A i, j \in 1 .. Len(users) :
        i # j => DigitsOf(users[i].cpf) # DigitsOf(users[j].cpf)

\* C22: in every reachable state, those reached by interleaved registerUser
\* handlers included, no two stored users have the same normalized CPF.
C22_StoredCpfsDistinct == DistinctCpfs(fUsers) /\ DistinctCpfs(sUsers)

\* both handlers are registerUser handlers of one revision for the same
\* normalized CPF, both past their duplicate test and answered
RacedRegisters(a, b, op) ==
    /\ a # b
    /\ inflight[a].op = op /\ inflight[b].op = op
    /\ inflight[a].pc = "done" /\ inflight[b].pc = "done"
    /\ inflight[a].status # 409 /\ inflight[b].status # 409
    /\ DigitsOf(inflight[a].arg.cpf) = DigitsOf(inflight[b].arg.cpf)

\* C22: in each revision two registrations of one CPF passed the duplicate
\* test together (neither was answered 409), and one user is stored.
C22_Witness ==
    /\ \E a, b \in Slots : RacedRegisters(a, b, "sRegister")
    /\ Len(sUsers) = 1

\* C22: the same in the file-backed revision
C22_FileRaceReached ==
    /\ \E a, b \in Slots : RacedRegisters(a, b, "fRegister")
    /\ Len(fUsers) = 1

\* the history grew at its end only, and no completed record of it became
\* active
AppendOnly(before, after) ==
    /\ Len(after) >= Len(before)
    /\ \A i \in 1 .. Len(before) :
           /\ after[i].id = before[i].id
           /\ before[i].status = "completed" => after[i].status = "completed"

\* C25: the lifecycle is monotone and the history append-only: across any
\* interleaving of submitOrder and completeOrder handlers, a record of the
\* history that is "completed" never becomes "active" again and an order once
\* in the history is never removed from it.
C25_HistoryAppendOnly == [][AppendOnly(fUserOrders, fUserOrders')]_vars

\* C25, with every handler run to its end before the next one starts (Spec),
\* and for the relational table
C25_SequentialAppendOnly ==
    [][AppendOnly(fUserOrders, fUserOrders') /\ AppendOnly(sOrders, sOrders')]_vars

ProtectedPages == {PageOf(path) : path \in ProtectedPaths}

\* C28: a protected page (/menu, /kitchen, /admin) is rendered only while
\* there is a current user: with none, initially or after logout, the page on
\* screen is not a protected one, and a navigation to a protected route, or a
\* logout on one, ends at the screensaver route "/".
C28_ProtectedNeedsUser ==
    IsNull(ui.currentUser) =>
        /\ ui.rendered \notin ProtectedPages
        /\ ui.location \notin ProtectedPaths
        /\ (ui.event[1] \in {"navigate", "logout"}
            /\ ui.event[2] \in ProtectedPaths) => ui.location = "/"

\* C28: after a login and a logout, with nobody logged in, a navigation to
\* /kitchen ended at the screensaver.
C28_Witness ==
    /\ IsNull(ui.currentUser)
    /\ ui.mounts > 0
    /\ ui.event = <<"navigate", "/kitchen">>
    /\ ui.location = "/"
    /\ ui.rendered = "ScreensaverPage"

\* C29, first part: a checkout attempt that set isPlacingOrder sees it set
\* back to false in the end
C29_PlacingEventuallyReset == ui.isPlacingOrder ~> ~ui.isPlacingOrder

\* C29, second part: at most one order submission of the page is outstanding
C29_OneOutstanding == Cardinality(ui.checkouts) <= 1

\* C29, third part: when a submission settles, the cart is cleared and the
\* order appended to the current user's local history if and only if the
\* server accepted it
C29_ClearedIffAccepted ==
    [][\A req \in ui.checkouts, outcome \in Outcomes :
           CheckoutSettled(req, outcome) =>
               LET saved == [n |-> req.n, items |-> req.items]
                   appended ==
                       /\ ~IsNull(ui'.currentUser)
                       /\ ~IsNull(ui.currentUser)
                       /\ ui'.currentUser.historico =
                              Append(ui.currentUser.historico, saved)
                   kept == ui'.currentUser = ui.currentUser
                           /\ ui'.cartItems = ui.cartItems
               IN IF outcome = "accepted"
                  THEN ui'.cartItems = <<>> /\ appended
                  ELSE kept]_vars

\* C29: in MenuPage.handleCheckout every checkout attempt (accepted, rejected
\* or failed) eventually sets isPlacingOrder back to false, at most one order
\* submission is outstanding at any time, and the cart is cleared and the
\* order appended to the current user's local history if and only if the
\* server accepted the order.
C29_CheckoutDiscipline ==
    /\ C29_PlacingEventuallyReset
    /\ []C29_OneOutstanding
    /\ C29_ClearedIffAccepted

\* C29, third part, for a customer who is still logged in when the answer
\* arrives
C29_ClearedIffAcceptedLoggedIn ==
    [][\A req \in ui.checkouts, outcome \in Outcomes :
           (CheckoutSettled(req, outcome) /\ ~IsNull(ui.currentUser)) =>
               LET saved == [n |-> req.n, items |-> req.items]
               IN IF outcome = "accepted"
                  THEN /\ ui'.cartItems = <<>>
                       /\ ui'.currentUser.historico =
                              Append(ui.currentUser.historico, saved)
                  ELSE /\ ui'.currentUser = ui.currentUser
                       /\ ui'.cartItems = ui.cartItems]_vars

\* on the menu page an empty cart shows no suggestion
EmptyCartNoSuggestion ==
    (ui.rendered = "MenuPage" /\ ui.cartItems = <<>>) => ui.cartSuggestion = ""

\* what a MenuPage shows is never replaced by the outcome of an earlier run
\* of its effect
NewerSuggestionKept ==
    (ui'.instance = ui.instance /\ ui.instance # 0)
        => ui'.suggestionRun >= ui.suggestionRun

\* C30: in MenuPage the stored cartSuggestion is never the answer to a request
\* issued for an older cart than the current one: once the cart is empty
\* cartSuggestion is "" and stays so when a getDynamicCartSuggestion call
\* started for a non-empty cart resolves, and answers arriving out of order do
\* not replace a newer suggestion.
C30_NoStaleSuggestion == []EmptyCartNoSuggestion /\ [][NewerSuggestionKept]_vars

\* C30, for the answers to calls made by a MenuPage that has left the screen:
\* they change nothing on the page
C30_OtherInstanceIgnored ==
    [][\A fetch \in ui.fetches, upstream \in Upstreams :
           (SuggestionSettled(fetch, upstream) /\ fetch.instance # ui.instance)
               => ui'.cartSuggestion = ui.cartSuggestion]_vars

====
